---- MODULE Spec2Model ----
(***************************************************************************)
(* Verification model of the ELSA two-server aggregation runtime.          *)
(*                                                                         *)
(* Part 1: the message-multiplexing transports of the bridge crate         *)
(*   TcpConnection (client <-> server) and MpcConnection (server <->       *)
(*   server): write queue / idle-socket queue, write workers, buffered      *)
(*   writers, sockets, read loops and the pending_message /                *)
(*   pending_subscribe rendezvous maps.                                    *)
(***************************************************************************)
EXTENDS Integers, Sequences, FiniteSets, TLC

\* ------------------------------------------------------------------------
\* Bounds of the model
\* ------------------------------------------------------------------------
\* number of application message ids used on a connection
NumIds == 2
\* number of pooled sockets of an MpcConnection
NumSockets == 2
\* number of clients a ClientsPool accepts
NumClients == 3
\* largest ClientID a client registers with in the pool model
MaxUid == 2
\* largest ClientID in a pool that is split and merged
MaxPoolUid == 4
\* half the width of a Block in bits (the lane width of the carry-less multiply)
HalfBits == 1
\* number of receiver inputs, bits of one input, additional OTs
NumInputs == 1
NumBits == 2
NumAdditional == 1
\* width in bits of the ring of the arithmetic shares
ArithBits == 3
\* width in bits of the ring of the square correlations
CorrBits == 4
\* number of elements of one client's input vector (gsize)
NumElems == 2
\* number of seeds a client's rng draws a share seed from
NumSeeds == 2
\* largest number of clients in the pool of a protocol run
NumPoolClients == 2
\* number of seeds of the clients' rng a protocol run is started with
NumRunSeeds == 6
\* width in bits of the u64 of a message id
U64Bits == 4
\* largest number of generators: the one of IdGen::new and the reserved ones
MaxGens == 3
\* largest num_rounds below u64::MAX that reserve_rounds is called with
MaxRounds == 2
\* largest number of ids the generators return in a run
MaxIssued == 4
\* number of clients of the two-phase (mp-po2) client protocol
NumPo2Clients == 3
\* blocks of one batch of the COT to ROT conversion, and batches of one call
OT_BSIZE == 2
MaxChunks == 2
\* bits of one lane of a packed bit vector, and the largest size of a vector
LaneBits == 2
MaxPackedBits == 4
\* blocks of one batch of the block generator, and blocks drawn in all
AES_BATCH_SIZE == 2
MaxRngBlocks == 4
\* the longest operand of an inner product
MaxDotLen == 2

\* ------------------------------------------------------------------------
\* Generic helpers: finite maps (HashMap / BTreeMap) and Option values
\* ------------------------------------------------------------------------
MapPut(m, k, v) == [j \in (DOMAIN m) \cup {k} |-> IF j = k THEN v ELSE m[j]]
MapDel(m, k) == [j \in (DOMAIN m) \ {k} |-> m[j]]
EmptyMap == [j \in {} |-> 0]

\* ------------------------------------------------------------------------
\* Transport: constants
\* ------------------------------------------------------------------------
\* message id 0 is reserved for the registration message
REGISTER_MESSAGE_ID == 0
COMMON_MESSAGE_ID_START == 1
\* u64::MAX, the bound of a generator made by IdGen::new
U64_MAX == 2 ^ U64Bits - 1

\* the two endpoints of one connection
Ends == {1, 2}
Peer(e) == 3 - e
Ids == COMMON_MESSAGE_ID_START .. (COMMON_MESSAGE_ID_START + NumIds - 1)
Sockets == 1 .. NumSockets
\* the first and a second (duplicate) subscriber call on one id
Slots == {1, 2}
Kinds == {"tcp", "mpc"}

\* the bytes endpoint e passes to send under id i (distinct per message)
PayloadOf(e, i) == 10 * e + i
\* the frame written for send(i): u64 message_id | u64 length | payload
Frame(e, i) == [id |-> i, data |-> PayloadOf(e, i)]
\* data.len(): the message with id i has i bytes
NumBytes(data) == data % 10

VARIABLES
    kind,       \* which transport this connection is: "tcp" or "mpc"
    sender,     \* the endpoint whose application sends (its peer subscribes)
    open,       \* open[s]: socket s is still connected
    sendSt,     \* sendSt[e][i]: state of the completion one-shot of send(i) at e
    subSt,      \* subSt[e][i][k]: state of subscriber call k on id i at e
    got,        \* got[e][i][k]: <<bytes>> the subscriber call resolved with
    wq,         \* wq[e]: write_channel (tcp) / pending_write_task (mpc)
    idleQ,      \* idleQ[e]: pending_idle_socket (mpc)
    handoff,    \* handoff[e][s]: value sent into the parked worker's one-shot
    wpc,        \* wpc[e][s]: position of the write worker of socket s
    cur,        \* cur[e][s]: the (id, data, complete) the worker is writing
    wbuf,       \* wbuf[e][s]: frames inside the BufWriter, not yet flushed
    wire,       \* wire[e][s]: frames handed to socket s by e, unread by Peer(e)
    wpoisoned,  \* wpoisoned[e]: the write_loop_buffer mutex is poisoned
    subChan,    \* subChan[e]: subscribe_channel (tcp)
    pendMsg,    \* pendMsg[e]: pending_message map  id -> bytes
    pendSub,    \* pendSub[e]: pending_subscribe map id -> subscriber call
    rpoisoned,  \* rpoisoned[e]: the read buffer mutex is poisoned
    ralive,     \* ralive[e][s]: the read loop of socket s at e is running
    \* --- ClientsPool (server side) and its clients
    uid,        \* uid[c]: the ClientID client c registers with
    cst,        \* cst[c]: position of client c: "idle", "connected", "sent"
    cwire,      \* cwire[c]: frames client c handed to its socket, unread
    backlog,    \* connected sockets the listener has not accepted yet
    accepted,   \* clients_handle: the connections in accept order
    connUid,    \* connUid[c]: the uid field of the server-side connection
    psub,       \* psub[c][i]: state of the subscriber of id i on connection c
    pgot,       \* pgot[c][i]: <<bytes>> that subscriber resolved with
    psubChan,   \* psubChan[c]: subscribe_channel of connection c
    ppendMsg,   \* ppendMsg[c]: pending_message of connection c
    ppendSub,   \* ppendSub[c]: ids with a sender in pending_subscribe of c
    poolSt,     \* position of ClientsPool::new / the gather
    pool,       \* ClientsPool.clients once built
    gathered,   \* the Vec a gather returned
    \* --- load balancing: split of a built pool and merge of the results
    spool,      \* the built pool: ClientIDs in ascending order
    sphase,     \* sphase[a]: position of the server with is_alice = a
    ssplit,     \* ssplit[a]: <<clients_alice, clients_bob>> of that server
    sres,       \* sres[a]: the per-client results of the two sub-pools
    smerged,    \* smerged[a]: the merged per-client results
    \* --- correlated OT: sampling by the client, verification by the servers
    otPhase,    \* "start", "sampled", "sent", "verified"
    otIn,       \* inputs_1, delta and chi
    otToAlice,  \* B2ACOTToAlice: delta, qs_seed
    otToBob,    \* B2ACOTToBob: r_seed, ts
    otTil,      \* the receiver's message: x_til, t_til
    otOk,       \* the boolean verify_and_get_cot returned
    otSampler,  \* the sampler the client used: "cots" or "selected"
    otFlip,     \* <<i, b>> once bit b of ts[i] was flipped in transit, else <<>>
    \* --- B2A: boolean shares to arithmetic shares
    b2aPhase,   \* "start", "sampled", "sender", "done"
    b2aIn,      \* the inputs, their two boolean shares, delta, the cipher
    b2aCot,     \* the COT pair: qs of the OT sender, ts of the OT receiver
    b2aOut,     \* y0s and us of the OT sender, y1s of the OT receiver
    \* --- square correlation verification of one client's batch
    cvPhase,    \* "start", "phase1", "phase2", "done"
    cvIn,       \* square_corr of the two servers, t_seed
    cvOut,      \* db, wb of the two servers, d, and the count returned
    cvFlip,     \* <<party, k, b>> once bit b of the c share k was flipped, else <<>>
    \* --- A2S: arithmetic shares of x to arithmetic shares of x * x
    a2sPhase,   \* "start", "first", "done"
    a2sIn,      \* x, its two shares, square_corr of the two servers
    a2sOut,     \* eb and the result of the two servers
    \* --- the protocol driver of the two servers over a pool of clients
    mPool,      \* the ClientIDs of the pool, sorted
    mMsg,       \* mMsg[u]: the messages of client u to its Alice and its Bob
    mFault,     \* mFault[u]: what client u corrupted in its messages, or "none"
    mPc,        \* mPc[s]: position of the server with is_alice = s
    mSrv,       \* mSrv[s]: messages sent to the peer, hashers, shares, counts
    \* --- the life of the background loops of a connection
    palive,     \* palive[c]: the read loop of client connection c is running
    subLoop,    \* subLoop[e]: the tcp subscribe loop of endpoint e is running
    io,         \* io[e]: the byte counters num_bytes_sent and num_bytes_recv of
                \* endpoint e, and the payload bytes it has written and read
    \* --- the message ids of the server-to-server protocol steps
    iPool,      \* the ClientIDs of the pool, sorted
    iPc,        \* iPc[s]: the last step whose tasks server s has spawned
    iIds,       \* iIds[s]: the IdPool server s built
    iUse,       \* iUse[s]: the ids server s has used: direction, id, client, step
    \* --- a family of IdGen: one made by IdGen::new and those reserved from it
    idgen,      \* a record:
                \*   overflow_checks: the build panics on integer overflow
                \*     (else it wraps)
                \*   gens[k]: the fields of generator k
                \*   from[k]: the reserve_rounds call that returned generator k
                \*   issued: the ids returned so far: generator, direction, id
                \*   ret: the last call: operation, generator, whether it
                \*     panicked
    \* --- a call of a library function on its own
    call,       \* a record: the function called, its arguments, the position
                \* of the caller, the values returned
    \* --- the two-phase client protocol of the mp-po2 variant
    po2         \* a record:
                \*   sent[u]: the servers client u has sent its phase-1
                \*     message to
                \*   client[u]: position of the phase_2 task of client u
                \*   srv[s]: position of ClientData::fetch on the server with
                \*     is_alice = s
                \*   up[u][s]: ids of the frames in flight from client u to
                \*     server s
                \*   down[u][s]: ids of the frames in flight from server s to
                \*     client u
                \*   gotS[s][u]: ids the connection of server s to client u
                \*     has read
                \*   gotC[u][s]: ids the connection of client u to server s
                \*     has read

wside == <<sendSt, wq, idleQ, handoff, wpc, cur, wbuf, wire, wpoisoned>>
rside == <<subSt, got, subChan, pendMsg, pendSub, rpoisoned, ralive>>
tvars == <<kind, sender, open, wside, rside>>
pvars == <<uid, cst, cwire, backlog, accepted, connUid, psub, pgot, psubChan,
           ppendMsg, ppendSub, poolSt, pool, gathered>>
svars == <<spool, sphase, ssplit, sres, smerged>>
cvars == <<otPhase, otIn, otToAlice, otToBob, otTil, otOk, otSampler, otFlip>>
bvars == <<b2aPhase, b2aIn, b2aCot, b2aOut>>
kvars == <<cvPhase, cvIn, cvOut, cvFlip>>
avars == <<a2sPhase, a2sIn, a2sOut>>
\* the protocols on arithmetic shares that follow B2A
mvars == <<mPool, mMsg, mFault, mPc, mSrv>>
\* the background loops that a failure ends
ivars == <<iPool, iPc, iIds, iUse>>
\* a family of message id generators
overflow_checks == idgen.overflow_checks
gGens == idgen.gens
gFrom == idgen.from
gIssued == idgen.issued
gRet == idgen.ret
\* the state of the library calls that are checked on their own
\* the two-phase client protocol
poSent == po2.sent
poClient == po2.client
poSrv == po2.srv
poUp == po2.up
poDown == po2.down
poGotS == po2.gotS
poGotC == po2.gotC
uvars == <<idgen, po2, call>>
hvars == <<palive, subLoop, io, ivars, uvars>>
yvars == <<kvars, avars, mvars, hvars>>
vars == <<tvars, pvars, svars, cvars, bvars, yvars>>
\* everything but the transport of one connection
nonT == <<pvars, svars, cvars, bvars, yvars>>
\* everything but the clients pool, the load balancing, the correlated OT,
\* the B2A conversion
nonP == <<tvars, svars, cvars, bvars, yvars>>
nonS == <<tvars, pvars, cvars, bvars, yvars>>
nonC == <<tvars, pvars, svars, bvars, yvars>>
nonB == <<tvars, pvars, svars, cvars, yvars>>
nonY == <<tvars, pvars, svars, cvars, bvars>>
nonK == <<nonY, avars, mvars, hvars>>
nonA == <<nonY, kvars, mvars, hvars>>
nonM == <<nonY, kvars, avars, hvars>>
\* everything but the clients pool and the background loops
nonPH == <<tvars, svars, cvars, bvars, kvars, avars, mvars>>
\* everything but the message ids of the protocol steps
nonI == <<tvars, pvars, svars, cvars, bvars, kvars, avars, mvars, palive, subLoop,
          io, uvars>>
\* everything but the library calls that are checked on their own
nonU == <<tvars, pvars, svars, cvars, bvars, kvars, avars, mvars, palive, subLoop,
          io, ivars>>
\* everything but the transport and its byte counters
nonTIo == <<pvars, svars, cvars, bvars, kvars, avars, mvars, palive, subLoop, ivars,
            uvars>>
\* everything but the transport and the background loops
nonTH == <<pvars, svars, cvars, bvars, kvars, avars, mvars>>

\* sockets a connection of this kind owns
SocketsOf(k) == IF k = "tcp" THEN {1} ELSE Sockets

TInit(k, e0) ==
    /\ kind = k
    /\ sender = e0
    /\ open = [s \in Sockets |-> TRUE]
    /\ sendSt = [e \in Ends |-> [i \in Ids |-> "none"]]
    /\ subSt = [e \in Ends |-> [i \in Ids |-> [c \in Slots |-> "none"]]]
    /\ got = [e \in Ends |-> [i \in Ids |-> [c \in Slots |-> <<>>]]]
    /\ wq = [e \in Ends |-> <<>>]
    /\ idleQ = [e \in Ends |-> <<>>]
    /\ handoff = [e \in Ends |-> [s \in Sockets |-> <<>>]]
    /\ wpc = [e \in Ends |-> [s \in Sockets |-> "loop"]]
    /\ cur = [e \in Ends |-> [s \in Sockets |-> <<>>]]
    /\ wbuf = [e \in Ends |-> [s \in Sockets |-> <<>>]]
    /\ wire = [e \in Ends |-> [s \in Sockets |-> <<>>]]
    /\ wpoisoned = [e \in Ends |-> FALSE]
    /\ subChan = [e \in Ends |-> <<>>]
    /\ pendMsg = [e \in Ends |-> EmptyMap]
    /\ pendSub = [e \in Ends |-> EmptyMap]
    /\ rpoisoned = [e \in Ends |-> FALSE]
    /\ ralive = [e \in Ends |-> [s \in Sockets |-> TRUE]]

\* ------------------------------------------------------------------------
\* ClientsPool: constants and initial state
\* ------------------------------------------------------------------------
Clients == 1 .. NumClients
Uids == 0 .. MaxUid
\* the ids used on a client connection: registration and RecvId::FIRST
PoolIds == {REGISTER_MESSAGE_ID, COMMON_MESSAGE_ID_START}
\* the bytes client c sends under RecvId::FIRST
PayloadOfClient(c) == 100 + c

\* the pool variables before any client connects, for registration ids u
PInit(u) ==
    /\ uid = u
    /\ cst = [c \in Clients |-> "idle"]
    /\ cwire = [c \in Clients |-> <<>>]
    /\ backlog = <<>>
    /\ accepted = <<>>
    /\ connUid = [c \in Clients |-> 0]
    /\ psub = [c \in Clients |-> [i \in PoolIds |-> "none"]]
    /\ pgot = [c \in Clients |-> [i \in PoolIds |-> <<>>]]
    /\ psubChan = [c \in Clients |-> <<>>]
    /\ ppendMsg = [c \in Clients |-> EmptyMap]
    /\ ppendSub = [c \in Clients |-> {}]
    /\ poolSt = "accepting"
    /\ pool = <<>>
    /\ gathered = <<>>

\* ------------------------------------------------------------------------
\* Correlated OT: constants and initial state
\* ------------------------------------------------------------------------
BlockBits == 2 * HalfBits
HalfSize == 2 ^ HalfBits
BlockSize == 2 ^ BlockBits
\* a Block, as the number its bits spell
Blocks == 0 .. (BlockSize - 1)
\* inputs_1.len() * B::NUM_BITS + num_additional
NumOts == NumInputs * NumBits + NumAdditional
\* one input word of the receiver
Words == 0 .. (2 ^ NumBits - 1)
COTSeeds == 0 .. (BlockSize ^ NumOts - 1)
ChoiceSeeds == 0 .. (2 ^ NumAdditional - 1)
NoBlocks == <<>>

CInit(inputs_1, delta, chi) ==
    /\ otPhase = "start"
    /\ otIn = [inputs_1 |-> inputs_1, delta |-> delta, chi |-> chi]
    /\ otToAlice = [delta |-> 0, qs_seed |-> 0]
    /\ otToBob = [r_seed |-> 0, ts |-> NoBlocks]
    /\ otTil = [x_til |-> 0, t_til |-> <<0, 0>>]
    /\ otOk = FALSE
    /\ otSampler = "none"
    /\ otFlip = <<>>

CotIdle == CInit(<<>>, 0, <<>>)

\* ------------------------------------------------------------------------
\* Arithmetic shares: constants and initial states
\* ------------------------------------------------------------------------
ArithSize == 2 ^ ArithBits
\* a value of the ring of the arithmetic shares
Ring == 0 .. (ArithSize - 1)
\* the block cipher under one scheduled key: a permutation of the blocks
Ciphers == {f \in [Blocks -> Blocks] : \A a, b \in Blocks : a # b => f[a] # f[b]}
IdCipher == [b \in Blocks |-> b]

BInit(inputs, inputs_0, delta, enc) ==
    /\ b2aPhase = "start"
    /\ b2aIn = [inputs |-> inputs, inputs_0 |-> inputs_0,
                inputs_1 |-> [n \in DOMAIN inputs |-> 0], delta |-> delta, enc |-> enc]
    /\ b2aCot = [qs |-> NoBlocks, ts |-> NoBlocks]
    /\ b2aOut = [y0s |-> <<>>, us |-> <<>>, y1s |-> <<>>]

B2aIdle == BInit(<<>>, <<>>, 0, IdCipher)

\* the two parties of the server-server protocols
ALICE == FALSE
BOB == TRUE
Parties == {ALICE, BOB}
CorrSize == 2 ^ CorrBits
\* a value of the ring of the square correlations
CorrRing == 0 .. (CorrSize - 1)

\* corr_verify: the SquareCorrShare batch of each server (a sequence of
\* <<a, c>>, correlations first, sacrificed correlations after) and t_seed
KInit(corr_alice, corr_bob, t_seed) ==
    /\ cvPhase = [p \in Parties |-> "start"]
    /\ cvIn = [square_corr |-> [p \in Parties |-> IF p = ALICE THEN corr_alice
                                                                ELSE corr_bob],
               t_seed |-> t_seed]
    /\ cvOut = [db |-> [p \in Parties |-> <<>>], wb |-> [p \in Parties |-> <<>>],
                count |-> [p \in Parties |-> 0]]
    /\ cvFlip = <<>>

CorrIdle == KInit(<<>>, <<>>, 0)

\* a2s: x, the arithmetic shares of x and the SquareCorrShare batch of each
\* server
AInit(x, x_alice, x_bob, corr_alice, corr_bob) ==
    /\ a2sPhase = [p \in Parties |-> "start"]
    /\ a2sIn = [x |-> x,
                xb |-> [p \in Parties |-> IF p = ALICE THEN x_alice ELSE x_bob],
                square_corr |-> [p \in Parties |-> IF p = ALICE THEN corr_alice
                                                                 ELSE corr_bob]]
    /\ a2sOut = [eb |-> [p \in Parties |-> <<>>], x_sq |-> [p \in Parties |-> <<>>]]

A2sIdle == AInit(<<>>, <<>>, <<>>, <<>>, <<>>)

\* what a server holds before main_with_option runs any protocol
NoServerState ==
    [ot_sent |-> <<>>, ot_ok |-> <<>>, h_ot_ba |-> <<>>,
     us_sent |-> <<>>, alice_arith_shares |-> <<>>,
     bob_arith_shares |-> <<>>, h_b2a_ab |-> <<>>,
     db_a |-> <<>>, db_b |-> <<>>, wb_a |-> <<>>, wb_b |-> <<>>,
     h_sqcorr_ba |-> <<>>, h_sqcorr_ab |-> <<>>, sq_ok_a |-> <<>>, sq_ok_b |-> <<>>,
     e_sent |-> <<>>, h_a2s |-> <<>>, x_sq |-> <<>>, log |-> <<>>]

\* the driver over the pool q of clients with messages msg
MInit(q, msg) ==
    /\ mPool = q
    /\ mMsg = msg
    /\ mFault = [u \in {q[k] : k \in DOMAIN q} |-> "none"]
    /\ mPc = [s \in BOOLEAN |-> "start"]
    /\ mSrv = [s \in BOOLEAN |-> NoServerState]

MainIdle == MInit(<<>>, <<>>)

\* the servers before IdPool::build, over the pool q
IInit(q) ==
    /\ iPool = q
    /\ iPc = [s \in BOOLEAN |-> "start"]
    /\ iIds = [s \in BOOLEAN |-> <<>>]
    /\ iUse = [s \in BOOLEAN |-> {}]

\* every background loop is spawned with its connection and runs
LoopsRunning ==
    /\ palive = [c \in 1 .. NumClients |-> TRUE]
    /\ subLoop = [e \in {1, 2} |-> TRUE]
    /\ io = [e \in {1, 2} |-> [num_bytes_sent |-> 0, num_bytes_recv |-> 0,
                                written |-> 0, read |-> 0]]

IdsIdle == IInit(<<>>)

\* a family of generators gs in a build with overflow checks oc, before any
\* call
GInit(gs, oc) ==
    idgen = [overflow_checks |-> oc,
             gens |-> gs,
             from |-> [k \in DOMAIN gs |-> [parent |-> 0, num_rounds |-> 0,
                                            send_lo |-> 0, recv_lo |-> 0]],
             issued |-> <<>>,
             ret |-> [op |-> "none", gen |-> 0, panic |-> FALSE]]

GenIdle == GInit(<<>>, TRUE)

\* the two-phase protocol with the clients 0 .. n - 1, before any message
Po2Start(n) ==
    po2 = [sent |-> [u \in 0 .. (n - 1) |-> {}],
           client |-> [u \in 0 .. (n - 1) |-> "start"],
           srv |-> [s \in BOOLEAN |-> IF n = 0 THEN "idle" ELSE "phase1"],
           up |-> [u \in 0 .. (n - 1) |-> [s \in BOOLEAN |-> <<>>]],
           down |-> [u \in 0 .. (n - 1) |-> [s \in BOOLEAN |-> <<>>]],
           gotS |-> [s \in BOOLEAN |-> [u \in 0 .. (n - 1) |-> {}]],
           gotC |-> [u \in 0 .. (n - 1) |-> [s \in BOOLEAN |-> {}]]]

Po2Idle == Po2Start(0)

\* no library call is being checked on its own
\* no library function is called on its own
CallIdle == call = [op |-> "none"]

UtilIdle == GenIdle /\ Po2Idle /\ CallIdle

\* no loop has ended and no server has built its message ids
RestIdle == LoopsRunning /\ IdsIdle /\ UtilIdle

\* the protocols that are not running
ArithIdle == B2aIdle /\ CorrIdle /\ A2sIdle /\ MainIdle /\ RestIdle

\* ------------------------------------------------------------------------
\* Load balancing: constants and initial state
\* ------------------------------------------------------------------------
\* a server is named by its is_alice flag
Servers == BOOLEAN

SInit(q) ==
    /\ spool = q
    /\ sphase = [a \in Servers |-> "start"]
    /\ ssplit = [a \in Servers |-> <<<<>>, <<>>>>]
    /\ sres = [a \in Servers |-> <<<<>>, <<>>>>]
    /\ smerged = [a \in Servers |-> <<>>]

SplitIdle == SInit(<<>>)

PoolIdle == SplitIdle /\ CotIdle /\ ArithIdle /\ PInit([c \in Clients |-> 0])
TransportIdle == TInit("tcp", 1)

TransportInit == PoolIdle /\ \E k \in Kinds, e0 \in Ends : TInit(k, e0)

\* ------------------------------------------------------------------------
\* Transport: the sending side
\* ------------------------------------------------------------------------
FrameIds(q) == {q[n].id : n \in DOMAIN q}

\* the completion senders of the messages in S are dropped unsent
DropSignals(st, e, S) ==
    [st EXCEPT ![e] = [i \in Ids |->
        IF i \in S /\ st[e][i] = "pending" THEN "dropped" ELSE st[e][i]]]

\* TcpConnection::send_message_bytes: push onto the unbounded write channel;
\* a closed channel (write loop gone) is a no-op that drops the signal sender.
TcpSendEff(e, i) ==
    /\ UNCHANGED <<idleQ, handoff, wpoisoned>>
    /\ IF wpc[e][1] = "dead"
       THEN /\ sendSt' = [sendSt EXCEPT ![e][i] = "dropped"]
            /\ UNCHANGED wq
       ELSE /\ sendSt' = [sendSt EXCEPT ![e][i] = "pending"]
            /\ wq' = [wq EXCEPT ![e] = Append(@, Frame(e, i))]

\* MpcConnection::send_message_bytes: hand the message to the head of
\* pending_idle_socket if there is one, else push it onto pending_write_task.
MpcSendEff_AlwaysQueue(e, i) ==
    /\ sendSt' = [sendSt EXCEPT ![e][i] = "pending"]
    /\ wq' = [wq EXCEPT ![e] = Append(@, Frame(e, i))]
    /\ UNCHANGED <<idleQ, handoff, wpoisoned>>
MpcSendEff(e, i) ==
    IF wpoisoned[e]
    THEN /\ sendSt' = [sendSt EXCEPT ![e][i] = "panicked"]
         /\ UNCHANGED <<wq, idleQ, handoff, wpoisoned>>
    ELSE IF idleQ[e] # <<>>
    THEN LET s == Head(idleQ[e]) IN
         /\ idleQ' = [idleQ EXCEPT ![e] = Tail(@)]
         /\ UNCHANGED wq
         /\ IF wpc[e][s] = "dead"
            THEN \* the parked worker is gone: idle_socket.send(..).unwrap() panics
                 /\ sendSt' = [sendSt EXCEPT ![e][i] = "panicked"]
                 /\ wpoisoned' = [wpoisoned EXCEPT ![e] = TRUE]
                 /\ UNCHANGED handoff
            ELSE /\ sendSt' = [sendSt EXCEPT ![e][i] = "pending"]
                 /\ handoff' = [handoff EXCEPT ![e][s] = <<Frame(e, i)>>]
                 /\ UNCHANGED wpoisoned
    ELSE /\ sendSt' = [sendSt EXCEPT ![e][i] = "pending"]
         /\ wq' = [wq EXCEPT ![e] = Append(@, Frame(e, i))]
         /\ UNCHANGED <<idleQ, handoff, wpoisoned>>

\* send_message_bytes: the completion one-shot is made for the caller and the
\* message goes to the write side
SendEff_NotQueued(e, i) ==
    /\ sendSt[e][i] = "none"
    /\ sendSt' = [sendSt EXCEPT ![e][i] = "pending"]
    /\ UNCHANGED <<wq, idleQ, handoff, wpoisoned, wpc, cur, wbuf, wire>>
SendEff(e, i) ==
    /\ sendSt[e][i] = "none"
    /\ IF kind = "tcp" THEN TcpSendEff(e, i) ELSE MpcSendEff(e, i)
    /\ UNCHANGED <<wpc, cur, wbuf, wire>>

\* tcp write loop: write_receiver.recv()
TcpWriteRecv(e) ==
    /\ kind = "tcp"
    /\ wpc[e][1] = "loop"
    /\ wq[e] # <<>>
    /\ cur' = [cur EXCEPT ![e][1] = <<Head(wq[e])>>]
    /\ wq' = [wq EXCEPT ![e] = Tail(@)]
    /\ wpc' = [wpc EXCEPT ![e][1] = "write"]
    /\ UNCHANGED <<nonT, kind, sender, open, sendSt, idleQ, handoff, wbuf, wire, wpoisoned, rside>>

\* the position of an mpc worker that parks: it flushes what its BufWriter
\* holds, then waits on its one-shot (a flush of an empty buffer does nothing)
ParkPosition_NoFlush(buffered) == "wait"
ParkPosition(buffered) == IF buffered = <<>> THEN "wait" ELSE "flush"

\* mpc write worker, top of the loop: take the head of pending_write_task, or
\* park by pushing a one-shot onto pending_idle_socket
MpcWorkerLoop_TakeLast(e, s) ==
    /\ kind = "mpc"
    /\ wpc[e][s] = "loop"
    /\ IF wpoisoned[e]
       THEN /\ wpc' = [wpc EXCEPT ![e][s] = "dead"]
            /\ UNCHANGED <<cur, wq, idleQ>>
       ELSE IF wq[e] # <<>>
       THEN /\ cur' = [cur EXCEPT ![e][s] = <<wq[e][Len(wq[e])]>>]
            /\ wq' = [wq EXCEPT ![e] = SubSeq(@, 1, Len(@) - 1)]
            /\ wpc' = [wpc EXCEPT ![e][s] = "write"]
            /\ UNCHANGED idleQ
       ELSE /\ idleQ' = [idleQ EXCEPT ![e] = Append(@, s)]
            /\ wpc' = [wpc EXCEPT ![e][s] = ParkPosition(wbuf[e][s])]
            /\ UNCHANGED <<cur, wq>>
    /\ UNCHANGED <<nonT, kind, sender, open, sendSt, handoff, wbuf, wire, wpoisoned, rside>>
MpcWorkerLoop(e, s) ==
    /\ kind = "mpc"
    /\ wpc[e][s] = "loop"
    /\ IF wpoisoned[e]
       THEN /\ wpc' = [wpc EXCEPT ![e][s] = "dead"]
            /\ UNCHANGED <<cur, wq, idleQ>>
       ELSE IF wq[e] # <<>>
       THEN /\ cur' = [cur EXCEPT ![e][s] = <<Head(wq[e])>>]
            /\ wq' = [wq EXCEPT ![e] = Tail(@)]
            /\ wpc' = [wpc EXCEPT ![e][s] = "write"]
            /\ UNCHANGED idleQ
       ELSE /\ idleQ' = [idleQ EXCEPT ![e] = Append(@, s)]
            /\ wpc' = [wpc EXCEPT ![e][s] = ParkPosition(wbuf[e][s])]
            /\ UNCHANGED <<cur, wq>>
    /\ UNCHANGED <<nonT, kind, sender, open, sendSt, handoff, wbuf, wire, wpoisoned, rside>>

\* the position a worker goes to after write_one_message_without_flush
AfterWrite_SkipFlush(k) == "complete"
AfterWrite(k) == IF k = "tcp" THEN "flush" ELSE "complete"

\* write_one_message_without_flush through the BufWriter: a frame that fits
\* stays in the buffer; a frame that does not fit pushes the buffer and the
\* frame to the socket. A socket error is unwrap()ed: the worker panics.
WorkerWrite(e, s) ==
    /\ s \in SocketsOf(kind)
    /\ wpc[e][s] = "write"
    /\ \E fits \in BOOLEAN :
        IF fits
        THEN /\ wbuf' = [wbuf EXCEPT ![e][s] = Append(@, cur[e][s][1])]
             /\ wpc' = [wpc EXCEPT ![e][s] = AfterWrite(kind)]
             /\ io' = [io EXCEPT ![e].written = @ + NumBytes(cur[e][s][1].data)]
             /\ UNCHANGED <<wire, cur, sendSt, wq>>
        ELSE IF open[s]
        THEN /\ wire' = [wire EXCEPT ![e][s] = @ \o wbuf[e][s] \o cur[e][s]]
             /\ wbuf' = [wbuf EXCEPT ![e][s] = <<>>]
             /\ wpc' = [wpc EXCEPT ![e][s] = AfterWrite(kind)]
             /\ io' = [io EXCEPT ![e].written = @ + NumBytes(cur[e][s][1].data)]
             /\ UNCHANGED <<cur, sendSt, wq>>
        ELSE /\ wpc' = [wpc EXCEPT ![e][s] = "dead"]
             /\ cur' = [cur EXCEPT ![e][s] = <<>>]
             /\ sendSt' = DropSignals(sendSt, e,
                    FrameIds(cur[e][s]) \cup
                    (IF kind = "tcp" THEN FrameIds(wq[e]) ELSE {}))
             /\ wq' = IF kind = "tcp" THEN [wq EXCEPT ![e] = <<>>] ELSE wq
             /\ UNCHANGED <<wbuf, wire, io>>
    /\ UNCHANGED <<nonTIo, kind, sender, open, idleQ, handoff, wpoisoned, rside>>

\* the position a worker goes to after flush()
AfterFlush(k) == IF k = "tcp" THEN "complete" ELSE "wait"

\* write_socket.flush().await.unwrap()
WorkerFlush(e, s) ==
    /\ s \in SocketsOf(kind)
    /\ wpc[e][s] = "flush"
    /\ IF wbuf[e][s] = <<>> \/ open[s]
       THEN /\ wire' = [wire EXCEPT ![e][s] = @ \o wbuf[e][s]]
            /\ wbuf' = [wbuf EXCEPT ![e][s] = <<>>]
            /\ wpc' = [wpc EXCEPT ![e][s] = AfterFlush(kind)]
            /\ UNCHANGED <<cur, sendSt, wq, handoff>>
       ELSE /\ wpc' = [wpc EXCEPT ![e][s] = "dead"]
            /\ cur' = [cur EXCEPT ![e][s] = <<>>]
            /\ handoff' = [handoff EXCEPT ![e][s] = <<>>]
            /\ sendSt' = DropSignals(sendSt, e,
                   FrameIds(cur[e][s]) \cup FrameIds(handoff[e][s]) \cup
                   (IF kind = "tcp" THEN FrameIds(wq[e]) ELSE {}))
            /\ wq' = IF kind = "tcp" THEN [wq EXCEPT ![e] = <<>>] ELSE wq
            /\ UNCHANGED <<wbuf, wire>>
    /\ UNCHANGED <<nonT, kind, sender, open, idleQ, wpoisoned, rside>>

\* mpc write worker parked on its one-shot: rx.await.unwrap()
MpcWorkerWake_Lost(e, s) ==
    /\ kind = "mpc"
    /\ wpc[e][s] = "wait"
    /\ handoff[e][s] # <<>>
    /\ handoff' = [handoff EXCEPT ![e][s] = <<>>]
    /\ wpc' = [wpc EXCEPT ![e][s] = "loop"]
    /\ UNCHANGED <<nonT, kind, sender, open, sendSt, wq, idleQ, cur, wbuf, wire, wpoisoned, rside>>
MpcWorkerWake(e, s) ==
    /\ kind = "mpc"
    /\ wpc[e][s] = "wait"
    /\ handoff[e][s] # <<>>
    /\ cur' = [cur EXCEPT ![e][s] = handoff[e][s]]
    /\ handoff' = [handoff EXCEPT ![e][s] = <<>>]
    /\ wpc' = [wpc EXCEPT ![e][s] = "write"]
    /\ UNCHANGED <<nonT, kind, sender, open, sendSt, wq, idleQ, wbuf, wire, wpoisoned, rside>>

\* the counters after the write loop of a connection of kind k has written
\* data_len bytes; a TcpConnection does not count what it writes
CountWritten(k, c, data_len) ==
    IF k = "mpc" THEN [c EXCEPT !.num_bytes_recv = @ + data_len] ELSE c

\* the counters after the read loop has read read_buffer_len bytes
CountRead(k, c, read_buffer_len) ==
    IF k = "mpc"
    THEN [c EXCEPT !.num_bytes_sent = @ + read_buffer_len]
    ELSE [c EXCEPT !.num_bytes_recv = @ + read_buffer_len]

\* complete.send(()): resolve the completion one-shot of the written
\* message, then count its bytes
WorkerComplete(e, s) ==
    /\ s \in SocketsOf(kind)
    /\ wpc[e][s] = "complete"
    /\ sendSt' = [sendSt EXCEPT ![e][cur[e][s][1].id] = "done"]
    /\ cur' = [cur EXCEPT ![e][s] = <<>>]
    /\ wpc' = [wpc EXCEPT ![e][s] = "loop"]
    /\ io' = [io EXCEPT ![e] = CountWritten(kind, @, NumBytes(cur[e][s][1].data))]
    /\ UNCHANGED <<nonTIo, kind, sender, open, wq, idleQ, handoff, wbuf, wire, wpoisoned,
                   rside>>

\* ------------------------------------------------------------------------
\* Transport: the receiving side
\* ------------------------------------------------------------------------
\* pending.pending_message.insert(message_id, read_buffer)
StoreMessage_Lost(m, f) == m
StoreMessage(m, f) == MapPut(m, f.id, f.data)

\* read loop of socket s at endpoint e: read_one_message, then under the
\* buffer lock hand the bytes to the pending subscriber of that id, or park
\* them in pending_message
ReadFrame(e, s) ==
    /\ s \in SocketsOf(kind)
    /\ ralive[e][s]
    /\ wire[Peer(e)][s] # <<>>
    /\ LET f == Head(wire[Peer(e)][s]) IN
       /\ wire' = [wire EXCEPT ![Peer(e)][s] = Tail(@)]
       /\ io' = [io EXCEPT ![e] = CountRead(kind, [@ EXCEPT !.read = @ + NumBytes(f.data)],
                                            NumBytes(f.data))]
       /\ IF rpoisoned[e]
          THEN \* pending_buffer.lock().unwrap() panics: the read loop is gone
               /\ ralive' = [ralive EXCEPT ![e][s] = FALSE]
               /\ UNCHANGED <<subSt, got, pendMsg, pendSub>>
          ELSE IF f.id \in DOMAIN pendSub[e]
          THEN LET c == pendSub[e][f.id] IN
               /\ pendSub' = [pendSub EXCEPT ![e] = MapDel(@, f.id)]
               /\ IF subSt[e][f.id][c] = "waiting"
                  THEN /\ subSt' = [subSt EXCEPT ![e][f.id][c] = "ready"]
                       /\ got' = [got EXCEPT ![e][f.id][c] = <<f.data>>]
                  ELSE \* "subscribe reader is dead": the bytes are discarded
                       UNCHANGED <<subSt, got>>
               /\ UNCHANGED <<pendMsg, ralive>>
          ELSE /\ pendMsg' = [pendMsg EXCEPT ![e] = StoreMessage(@, f)]
               /\ UNCHANGED <<subSt, got, pendSub, ralive>>
    /\ UNCHANGED <<nonTIo, kind, sender, open, sendSt, wq, idleQ, handoff, wpc, cur, wbuf,
                   wpoisoned, subChan, rpoisoned>>

\* TcpConnection::subscribe_and_get_bytes: push (id, one-shot) onto the
\* subscribe channel and wait on the one-shot
\* the subscribe loop has returned and dropped the receiver of the
\* channel: subscribe_channel.send(..).unwrap() panics
TcpSubscribeEff(e, i, c) ==
    /\ IF subLoop[e]
       THEN /\ subChan' = [subChan EXCEPT ![e] = Append(@, <<i, c>>)]
            /\ subSt' = [subSt EXCEPT ![e][i][c] = "queued"]
       ELSE /\ subSt' = [subSt EXCEPT ![e][i][c] = "panicked"]
            /\ UNCHANGED subChan
    /\ UNCHANGED <<got, pendMsg, pendSub, rpoisoned>>

\* pending_subscribe.insert(id, sender) of the tcp subscribe loop: the map
\* keeps the new sender; a sender already stored under the id is dropped,
\* which fails its waiting receiver
TcpInsertSubscriber(st, e, i, c) ==
    [st EXCEPT ![e][i] = [k \in Slots |->
        IF k = c THEN (IF @[k] = "abandoned" THEN "abandoned" ELSE "waiting")
        ELSE IF i \in DOMAIN pendSub[e] /\ k = pendSub[e][i] /\ @[k] = "waiting"
             THEN "failed"
             ELSE @[k]]]

\* pending.pending_message.remove(&id) under the buffer lock returns Some
HasPendingMessage_Blind(e, i) == FALSE
HasPendingMessage(e, i) == i \in DOMAIN pendMsg[e]

\* the subscribe loop returns: the receiver of the subscribe channel is
\* dropped with the requests still in it, whose one-shot senders are dropped
\* unsent; a subscriber waiting on such a one-shot unwraps the RecvError
DropRequests(st, e, reqs) ==
    [st EXCEPT ![e] = [i \in Ids |-> [k \in Slots |->
        IF st[e][i][k] = "queued" /\ (\E n \in DOMAIN reqs : reqs[n] = <<i, k>>)
        THEN "panicked" ELSE st[e][i][k]]]]

\* tcp subscribe loop: take one request; serve it from pending_message or
\* store its one-shot in pending_subscribe. When callback.send(v) fails
\* because the subscriber has dropped its receiver ("subscribe reader is
\* dead"), the loop returns.
TcpSubscribeLoop(e) ==
    /\ kind = "tcp"
    /\ subLoop[e]
    /\ subChan[e] # <<>>
    /\ LET i == Head(subChan[e])[1]
           c == Head(subChan[e])[2] IN
       IF HasPendingMessage(e, i)
       THEN /\ pendMsg' = [pendMsg EXCEPT ![e] = MapDel(@, i)]
            /\ UNCHANGED pendSub
            /\ IF subSt[e][i][c] = "abandoned"
               THEN /\ subLoop' = [subLoop EXCEPT ![e] = FALSE]
                    /\ subChan' = [subChan EXCEPT ![e] = <<>>]
                    /\ subSt' = DropRequests(subSt, e, Tail(subChan[e]))
                    /\ UNCHANGED got
               ELSE /\ subSt' = [subSt EXCEPT ![e][i][c] = "ready"]
                    /\ got' = [got EXCEPT ![e][i][c] = <<pendMsg[e][i]>>]
                    /\ subChan' = [subChan EXCEPT ![e] = Tail(@)]
                    /\ UNCHANGED subLoop
       ELSE /\ pendSub' = [pendSub EXCEPT ![e] = MapPut(@, i, c)]
            /\ subSt' = TcpInsertSubscriber(subSt, e, i, c)
            /\ subChan' = [subChan EXCEPT ![e] = Tail(@)]
            /\ UNCHANGED <<pendMsg, got, subLoop>>
    /\ UNCHANGED <<nonTH, palive, io, ivars, uvars, kind, sender, open, wside, rpoisoned, ralive>>

\* MpcConnection::subscribe_and_get_bytes, the part under the lock: a stored
\* sender under the same id makes the call panic ("duplicate id got
\* subscribed") after the insert, with the lock held
MpcInsertSubscriber(st, e, i, c) ==
    [st EXCEPT ![e][i] = [k \in Slots |->
        IF i \in DOMAIN pendSub[e]
        THEN (IF k = c THEN "panicked"
              ELSE IF k = pendSub[e][i] /\ @[k] = "waiting" THEN "failed"
              ELSE @[k])
        ELSE (IF k = c THEN "waiting" ELSE @[k])]]

MpcSubscribeEff(e, i, c) ==
    IF rpoisoned[e]
    THEN /\ subSt' = [subSt EXCEPT ![e][i][c] = "panicked"]
         /\ UNCHANGED <<got, subChan, pendMsg, pendSub, rpoisoned>>
    ELSE IF HasPendingMessage(e, i)
    THEN /\ pendMsg' = [pendMsg EXCEPT ![e] = MapDel(@, i)]
         /\ subSt' = [subSt EXCEPT ![e][i][c] = "ready"]
         /\ got' = [got EXCEPT ![e][i][c] = <<pendMsg[e][i]>>]
         /\ UNCHANGED <<subChan, pendSub, rpoisoned>>
    ELSE /\ pendSub' = [pendSub EXCEPT ![e] = MapPut(@, i, c)]
         /\ subSt' = MpcInsertSubscriber(subSt, e, i, c)
         /\ rpoisoned' = [rpoisoned EXCEPT ![e] = @ \/ i \in DOMAIN pendSub[e]]
         /\ UNCHANGED <<got, subChan, pendMsg>>

SubscribeEff(e, i, c) ==
    /\ subSt[e][i][c] = "none"
    /\ IF kind = "tcp" THEN TcpSubscribeEff(e, i, c)
       ELSE /\ MpcSubscribeEff(e, i, c)
            /\ UNCHANGED subChan
    /\ UNCHANGED ralive

\* ------------------------------------------------------------------------
\* Transport: the calls of the application
\* ------------------------------------------------------------------------
\* send_message(id, bytes); the caller sends each id at most once
Send(e, i) ==
    /\ e = sender
    /\ SendEff(e, i)
    /\ UNCHANGED <<nonT, kind, sender, open, rside>>

\* subscribe_and_get(id): the first subscriber call on an id
Subscribe(e, i) ==
    /\ e = Peer(sender)
    /\ SubscribeEff(e, i, 1)
    /\ UNCHANGED <<nonT, kind, sender, open, wside>>

\* a second subscriber call on an id that was subscribed before (one such
\* call per run)
SubscribeAgain(e, i) ==
    /\ subSt[e][i][1] # "none"
    /\ \A e2 \in Ends, i2 \in Ids : subSt[e2][i2][2] = "none"
    /\ SubscribeEff(e, i, 2)
    /\ UNCHANGED <<nonT, kind, sender, open, wside>>

\* exchange_message(id, bytes): send under id, subscribe to id
Exchange(e, i) ==
    /\ SendEff(e, i)
    /\ SubscribeEff(e, i, 1)
    /\ UNCHANGED <<nonT, kind, sender, open>>

\* ------------------------------------------------------------------------
\* Transport: specifications
\* ------------------------------------------------------------------------
\* the steps of the background tasks and of the sockets
WorkerNext ==
    \/ \E e \in Ends : TcpWriteRecv(e)
    \/ \E e \in Ends, s \in Sockets : MpcWorkerLoop(e, s)
    \/ \E e \in Ends, s \in Sockets : WorkerWrite(e, s)
    \/ \E e \in Ends, s \in Sockets : WorkerFlush(e, s)
    \/ \E e \in Ends, s \in Sockets : MpcWorkerWake(e, s)
    \/ \E e \in Ends, s \in Sockets : WorkerComplete(e, s)
    \/ \E e \in Ends, s \in Sockets : ReadFrame(e, s)
    \/ \E e \in Ends : TcpSubscribeLoop(e)

Next ==
    \/ \E e \in Ends, i \in Ids : Send(e, i)
    \/ \E e \in Ends, i \in Ids : Subscribe(e, i)
    \/ \E e \in Ends, i \in Ids : SubscribeAgain(e, i)
    \/ WorkerNext

Spec == TransportInit /\ [][Next]_vars

\* both endpoints call exchange_message; the background tasks are scheduled
\* by the runtime whenever they can run
ExchangeNext ==
    \/ \E e \in Ends, i \in Ids : Exchange(e, i)
    \/ WorkerNext

ExchangeInit == PoolIdle /\ \E k \in Kinds : TInit(k, 1)

SpecExchange ==
    /\ ExchangeInit
    /\ [][ExchangeNext]_vars
    /\ WF_vars(WorkerNext)

\* ------------------------------------------------------------------------
\* Transport: a socket of the connection is closed
\* ------------------------------------------------------------------------
CloseSocket(s) ==
    /\ s \in SocketsOf(kind)
    /\ open[s]
    /\ open' = [open EXCEPT ![s] = FALSE]
    /\ UNCHANGED <<nonT, kind, sender, wside, rside>>

\* read_one_message returns Err on the closed socket: the read loop breaks
ReadLoopExit(e, s) ==
    /\ s \in SocketsOf(kind)
    /\ ralive[e][s]
    /\ ~open[s]
    /\ wire[Peer(e)][s] = <<>>
    /\ ralive' = [ralive EXCEPT ![e][s] = FALSE]
    /\ UNCHANGED <<nonT, kind, sender, open, wside, subSt, got, subChan, pendMsg,
                   pendSub, rpoisoned>>

FaultWorkerNext ==
    \/ WorkerNext
    \/ \E e \in Ends, s \in Sockets : ReadLoopExit(e, s)

FaultNext ==
    \/ \E e \in Ends, i \in Ids : Send(e, i)
    \/ \E e \in Ends, i \in Ids : Subscribe(e, i)
    \/ \E s \in Sockets : CloseSocket(s)
    \/ FaultWorkerNext

SpecFault == TransportInit /\ [][FaultNext]_vars

\* ------------------------------------------------------------------------
\* Transport: properties
\* ------------------------------------------------------------------------
NoDuplicate == \A e \in Ends, i \in Ids : subSt[e][i][2] = "none"

\* the frame of send(i) at e has not yet been written by a write worker
Queued(e, i) ==
    \/ i \in FrameIds(wq[e])
    \/ \E s \in Sockets : i \in FrameIds(handoff[e][s])
    \/ \E s \in Sockets : wpc[e][s] = "write" /\ i \in FrameIds(cur[e][s])

\* the frame of send(i) at e is inside a BufWriter, not yet on the socket
Buffered(e, i) == \E s \in Sockets : i \in FrameIds(wbuf[e][s])

\* C1: with pairwise distinct ids sent by one side and one subscribe per id
\* on the other side, every subscribe resolves exactly once with exactly the
\* bytes sent under its id, whatever the order of sends, subscribes and
\* frame arrivals: a resolved subscriber holds the bytes of its id and the
\* message is then gone from the maps; no subscriber fails; and once no
\* background step is left to take, every subscribed and sent id is resolved.
C1_SubscribeGetsMatchingBytes ==
    NoDuplicate =>
        \A i \in Ids :
            LET e == Peer(sender)
                st == subSt[e][i][1] IN
            /\ st \in {"none", "queued", "waiting", "ready"}
            /\ st = "ready" =>
                /\ sendSt[sender][i] # "none"
                /\ got[e][i][1] = <<PayloadOf(sender, i)>>
                /\ i \notin DOMAIN pendMsg[e]
                /\ i \notin DOMAIN pendSub[e]
            /\ st # "ready" => got[e][i][1] = <<>>
            /\ (~ENABLED WorkerNext /\ st # "none" /\ sendSt[sender][i] # "none")
                   => st = "ready"

C1_Witness ==
    /\ NoDuplicate
    /\ \A i \in Ids : /\ subSt[Peer(sender)][i][1] = "ready"
                      /\ got[Peer(sender)][i][1] = <<PayloadOf(sender, i)>>

\* exchange_message(i) at e has returned, with the bytes its peer passed in
\* (MpcConnection::exchange_message also awaits the completion signal)
ExchangeCalled(e, i) == sendSt[e][i] # "none" /\ subSt[e][i][1] # "none"
ExchangeReturned(e, i) ==
    /\ subSt[e][i][1] = "ready"
    /\ got[e][i][1] = <<PayloadOf(Peer(e), i)>>
    /\ kind = "mpc" => sendSt[e][i] = "done"

\* C2: when both endpoints call exchange with the same id, both calls
\* eventually return, each with exactly the payload the other side passed
\* in, for concurrent exchanges with distinct ids started in any order.
\* A call made stays made and a call returned stays returned (first
\* conjunct), so that "called on both ends leads to returned on both ends"
\* is: again and again, every exchange called on both ends has returned on
\* both (second conjunct).
C2_ExchangeReturns ==
    /\ [][\A e \in Ends, i \in Ids :
             /\ ExchangeCalled(e, i) => ExchangeCalled(e, i)'
             /\ ExchangeReturned(e, i) => ExchangeReturned(e, i)']_vars
    /\ []<>(\A i \in Ids :
               (ExchangeCalled(1, i) /\ ExchangeCalled(2, i))
                   => (ExchangeReturned(1, i) /\ ExchangeReturned(2, i)))

C2_Witness ==
    \A e \in Ends, i \in Ids : ExchangeCalled(e, i) /\ ExchangeReturned(e, i)

\* C3: a subscribe for an id that already has an outstanding subscription
\* on the connection is a fatal programmer error; it never silently
\* replaces the earlier subscription and never coexists with it.
C3_DuplicateSubscribeIsFatal ==
    \A e \in Ends, i \in Ids :
        /\ ~(subSt[e][i][1] = "failed" /\ subSt[e][i][2] \in {"waiting", "ready"})
        /\ ~(subSt[e][i][1] = "waiting" /\ subSt[e][i][2] = "waiting")

\* every socket of the connection is closed and every read loop of e is gone
ConnectionGone(e) ==
    /\ \A s \in SocketsOf(kind) : ~open[s]
    /\ \A s \in SocketsOf(kind) : ~ralive[e][s]

\* C4: when the socket of a connection is closed, every subscriber still
\* pending on it is woken with a failure result: once the connection is
\* gone and no background step is left to take, no subscriber is waiting.
C4_PendingSubscribersWoken ==
    \A e \in Ends :
        (ConnectionGone(e) /\ ~ENABLED FaultWorkerNext)
            => \A i \in Ids, c \in Slots : subSt[e][i][c] # "waiting"

\* C5 (as claimed): on both transports the completion signal of a send is
\* resolved only after the whole frame has been handed to the socket.
C5_CompleteOnlyAfterOnSocket ==
    \A e \in Ends, i \in Ids :
        sendSt[e][i] = "done" => ~Queued(e, i) /\ ~Buffered(e, i)

\* C5 (amended): the completion signal is resolved only after a write
\* worker has written the whole frame into its buffered writer, never while
\* the message is still queued; on TcpConnection the writer has also been
\* flushed, so the frame has been handed to the socket. (On MpcConnection
\* the frame may still sit in the worker's buffer until the worker next
\* finds no queued task.)
C5_CompleteOnlyAfterWritten ==
    \A e \in Ends, i \in Ids :
        sendSt[e][i] = "done" =>
            /\ ~Queued(e, i)
            /\ kind = "tcp" => ~Buffered(e, i)

C5_Witness ==
    \E i \in Ids :
        /\ kind = "tcp"
        /\ sendSt[sender][i] = "done"
        /\ i \in FrameIds(wire[sender][1])

\* ------------------------------------------------------------------------
\* ClientsPool: clients connect and register, the server accepts, reads the
\* registration, sorts the connections by uid and gathers one message
\* ------------------------------------------------------------------------
\* register_to_server: the ClientID under the reserved message id
RegFrame(c) == [id |-> REGISTER_MESSAGE_ID, data |-> uid[c]]
AppFrame(c) == [id |-> COMMON_MESSAGE_ID_START, data |-> PayloadOfClient(c)]

\* the client connects; new_client_side sends the registration frame first
ClientConnect(c) ==
    /\ cst[c] = "idle"
    /\ cst' = [cst EXCEPT ![c] = "connected"]
    /\ backlog' = Append(backlog, c)
    /\ cwire' = [cwire EXCEPT ![c] = Append(@, RegFrame(c))]
    /\ UNCHANGED <<nonP, uid, accepted, connUid, psub, pgot, psubChan, ppendMsg,
                   ppendSub, poolSt, pool, gathered>>

\* the client sends its message under SendId::FIRST
ClientSendApp(c) ==
    /\ cst[c] = "connected"
    /\ cst' = [cst EXCEPT ![c] = "sent"]
    /\ cwire' = [cwire EXCEPT ![c] = Append(@, AppFrame(c))]
    /\ UNCHANGED <<nonP, uid, backlog, accepted, connUid, psub, pgot, psubChan,
                   ppendMsg, ppendSub, poolSt, pool, gathered>>

\* ClientsPool::new, accept loop: accept a socket and spawn new_server_side,
\* which builds the connection and subscribes to the registration id
PoolAccept ==
    /\ poolSt = "accepting"
    /\ Len(accepted) < NumClients
    /\ backlog # <<>>
    /\ LET c == Head(backlog) IN
       /\ backlog' = Tail(backlog)
       /\ accepted' = Append(accepted, c)
       /\ psubChan' = [psubChan EXCEPT ![c] = Append(@, REGISTER_MESSAGE_ID)]
       /\ psub' = [psub EXCEPT ![c][REGISTER_MESSAGE_ID] = "queued"]
    /\ UNCHANGED <<nonP, uid, cst, cwire, connUid, pgot, ppendMsg, ppendSub,
                   poolSt, pool, gathered>>

InSeq(x, q) == \E n \in DOMAIN q : q[n] = x

\* subscribe loop of connection c
PoolSubscribeLoop(c) ==
    /\ psubChan[c] # <<>>
    /\ LET i == Head(psubChan[c]) IN
       /\ psubChan' = [psubChan EXCEPT ![c] = Tail(@)]
       /\ IF i \in DOMAIN ppendMsg[c]
          THEN /\ ppendMsg' = [ppendMsg EXCEPT ![c] = MapDel(@, i)]
               /\ psub' = [psub EXCEPT ![c][i] = "ready"]
               /\ pgot' = [pgot EXCEPT ![c][i] = <<ppendMsg[c][i]>>]
               /\ UNCHANGED ppendSub
          ELSE /\ ppendSub' = [ppendSub EXCEPT ![c] = @ \cup {i}]
               /\ psub' = [psub EXCEPT ![c][i] = "waiting"]
               /\ UNCHANGED <<ppendMsg, pgot>>
    /\ UNCHANGED <<nonP, uid, cst, cwire, backlog, accepted, connUid, poolSt,
                   pool, gathered>>

\* read loop of connection c (it exists once the socket was accepted)
PoolReadFrame(c) ==
    /\ InSeq(c, accepted)
    /\ cwire[c] # <<>>
    /\ LET f == Head(cwire[c]) IN
       /\ cwire' = [cwire EXCEPT ![c] = Tail(@)]
       /\ IF f.id \in ppendSub[c]
          THEN /\ ppendSub' = [ppendSub EXCEPT ![c] = @ \ {f.id}]
               /\ psub' = [psub EXCEPT ![c][f.id] = "ready"]
               /\ pgot' = [pgot EXCEPT ![c][f.id] = <<f.data>>]
               /\ UNCHANGED ppendMsg
          ELSE /\ ppendMsg' = [ppendMsg EXCEPT ![c] = StoreMessage(@, f)]
               /\ UNCHANGED <<ppendSub, psub, pgot>>
    /\ UNCHANGED <<nonP, uid, cst, backlog, accepted, connUid, psubChan, poolSt,
                   pool, gathered>>

\* new_server_side after the await: conn.uid = client_id
PoolRegister(c) ==
    /\ psub[c][REGISTER_MESSAGE_ID] = "ready"
    /\ connUid' = [connUid EXCEPT ![c] = pgot[c][REGISTER_MESSAGE_ID][1]]
    /\ psub' = [psub EXCEPT ![c][REGISTER_MESSAGE_ID] = "done"]
    /\ UNCHANGED <<nonP, uid, cst, cwire, backlog, accepted, pgot, psubChan,
                   ppendMsg, ppendSub, poolSt, pool, gathered>>

\* clients.push(c.await.unwrap()): the new_server_side task of c has returned
Registered_NoWait(c) == TRUE
Registered(c) == psub[c][REGISTER_MESSAGE_ID] = "done"

\* clients.sort_by_key(|c| c.uid()): a stable sort, insertion of x into a
\* sorted q behind every element whose key is not larger
RECURSIVE InsertByUid(_, _, _)
InsertByUid(key, x, q) ==
    IF q = <<>> THEN <<x>>
    ELSE IF key[x] < key[Head(q)] THEN <<x>> \o q
    ELSE <<Head(q)>> \o InsertByUid(key, x, Tail(q))

RECURSIVE SortByUid(_, _)
SortByUid_Unsorted(key, q) == q
SortByUid(key, q) ==
    IF q = <<>> THEN <<>>
    ELSE InsertByUid(key, q[Len(q)], SortByUid(key, SubSeq(q, 1, Len(q) - 1)))

\* assert_eq!(set of uids .len(), clients.len(), "Duplicate client uid")
DistinctUids_Unchecked(key, q) == TRUE
DistinctUids(key, q) == Cardinality({key[q[n]] : n \in DOMAIN q}) = Len(q)

\* ClientsPool::new after the accept loop: await every connection, sort by
\* uid, assert that no uid is duplicated
PoolBuild ==
    /\ poolSt = "accepting"
    /\ Len(accepted) = NumClients
    /\ \A n \in DOMAIN accepted : Registered(accepted[n])
    /\ IF DistinctUids(connUid, accepted)
       THEN /\ pool' = SortByUid(connUid, accepted)
            /\ poolSt' = "built"
       ELSE /\ poolSt' = "panicked"
            /\ UNCHANGED pool
    /\ UNCHANGED <<nonP, uid, cst, cwire, backlog, accepted, connUid, psub, pgot,
                   psubChan, ppendMsg, ppendSub, gathered>>

\* ClientsPool::subscribe_and_get(RecvId::FIRST): one subscriber per client
GatherStart ==
    /\ poolSt = "built"
    /\ poolSt' = "gathering"
    /\ psubChan' = [c \in Clients |-> Append(psubChan[c], COMMON_MESSAGE_ID_START)]
    /\ psub' = [c \in Clients |-> [psub[c] EXCEPT ![COMMON_MESSAGE_ID_START] = "queued"]]
    /\ UNCHANGED <<nonP, uid, cst, cwire, backlog, accepted, connUid, pgot,
                   ppendMsg, ppendSub, pool, gathered>>

\* the gather awaits the handles in pool order and pushes each result
GatherResult(q) == [k \in DOMAIN q |-> pgot[q[k]][COMMON_MESSAGE_ID_START][1]]

\* T::from_bytes_owned accepts the bytes (a payload a client built with
\* into_bytes_owned); the bytes of clients are positive here
Deserializes(bytes) == bytes > 0

GatherFinish ==
    /\ poolSt = "gathering"
    /\ \A c \in Clients : /\ psub[c][COMMON_MESSAGE_ID_START] = "ready"
                          /\ Deserializes(pgot[c][COMMON_MESSAGE_ID_START][1])
    /\ gathered' = GatherResult(pool)
    /\ poolSt' = "gathered"
    /\ UNCHANGED <<nonP, uid, cst, cwire, backlog, accepted, connUid, psub, pgot,
                   psubChan, ppendMsg, ppendSub, pool>>

PoolNext ==
    \/ \E c \in Clients : ClientConnect(c)
    \/ \E c \in Clients : ClientSendApp(c)
    \/ PoolAccept
    \/ \E c \in Clients : PoolSubscribeLoop(c)
    \/ \E c \in Clients : PoolReadFrame(c)
    \/ \E c \in Clients : PoolRegister(c)
    \/ PoolBuild
    \/ GatherStart
    \/ GatherFinish

\* the ClientID each client registers with is free
PoolInit ==
    /\ TransportIdle
    /\ SplitIdle
    /\ CotIdle
    /\ ArithIdle
    /\ \E u \in [Clients -> Uids] : PInit(u)

SpecPool == PoolInit /\ [][PoolNext]_vars

\* ------------------------------------------------------------------------
\* ClientsPool: properties
\* ------------------------------------------------------------------------
PoolExposed == poolSt \in {"built", "gathering", "gathered"}

\* C6: a server-side client connection is handed to higher layers only
\* after the registration frame (message id 0) of that client was received,
\* its uid then equals the ClientID carried in that frame, and no
\* application frame is delivered to a higher-layer subscriber before the
\* registration completes.
C6_ExposedOnlyAfterRegistration ==
    \A c \in Clients :
        /\ PoolExposed =>
            /\ psub[c][REGISTER_MESSAGE_ID] = "done"
            /\ connUid[c] = uid[c]
        /\ psub[c][REGISTER_MESSAGE_ID] \in {"ready", "done"} =>
            pgot[c][REGISTER_MESSAGE_ID] = <<uid[c]>>
        /\ psub[c][COMMON_MESSAGE_ID_START] # "none" =>
            psub[c][REGISTER_MESSAGE_ID] = "done"
        /\ psub[c][COMMON_MESSAGE_ID_START] = "ready" =>
            pgot[c][COMMON_MESSAGE_ID_START] = <<PayloadOfClient(c)>>

\* the pool is exposed while an application frame that arrived before the
\* exposure is parked in pending_message
C6_Witness ==
    /\ poolSt = "built"
    /\ \E c \in Clients : COMMON_MESSAGE_ID_START \in DOMAIN ppendMsg[c]
    /\ \E c \in Clients : uid[c] # 0

\* the number of clients with a smaller ClientID than c
RankOf(c) == Cardinality({d \in Clients : uid[d] < uid[c]})

\* C7: a gather returns exactly one payload per connected client, in
\* ascending ClientID order: position k holds the payload sent by the
\* client with the k-th smallest ClientID, whatever the order in which the
\* clients connected, registered or sent.
C7_GatherSortedByClientId ==
    poolSt = "gathered" =>
        /\ Len(gathered) = NumClients
        /\ \A c \in Clients : gathered[RankOf(c) + 1] = PayloadOfClient(c)

\* a gather has returned for clients accepted in another order than their ids
C7_Witness ==
    /\ poolSt = "gathered"
    /\ accepted # pool
    /\ \E c \in Clients : uid[c] < uid[accepted[1]]

\* ------------------------------------------------------------------------
\* Load balancing: ClientsPool::split, the per-sub-pool fetch, merge_msg
\* ------------------------------------------------------------------------
\* ClientID::is_odd / is_even
IsOdd(u) == u % 2 = 1
IsEven(u) == u % 2 = 0

\* ClientsPool::split(is_alice): (clients_alice, clients_bob)
Split_IgnoreRole(q, is_alice) == <<SelectSeq(q, IsEven), SelectSeq(q, IsOdd)>>
Split(q, is_alice) ==
    IF is_alice
    THEN <<SelectSeq(q, IsEven), SelectSeq(q, IsOdd)>>
    ELSE <<SelectSeq(q, IsOdd), SelectSeq(q, IsEven)>>

\* itertools interleave: alternate, starting with a; when one is exhausted
\* the rest of the other follows
RECURSIVE Interleave(_, _)
Interleave(a, b) ==
    IF a = <<>> THEN b ELSE <<Head(a)>> \o Interleave(b, Tail(a))

\* ClientsPool::merge_msg(is_alice, from_alice, from_bob)
MergeMsg(is_alice, from_alice, from_bob) ==
    IF is_alice THEN Interleave(from_alice, from_bob)
    ELSE Interleave(from_bob, from_alice)

\* the client driver's arrange_conn: the server a client sends its
\* OT-sender ("to Alice") message to; TRUE names the server with is_alice
ArrangeConn(u) == IF u % 2 = 0 THEN TRUE ELSE FALSE

\* the per-client result a server derives from the message of client u
ResultOf(u) == 100 + u
ResultsOf(q) == [k \in DOMAIN q |-> ResultOf(q[k])]

\* ClientData::fetch: split the pool
SplitPool(a) ==
    /\ sphase[a] = "start"
    /\ ssplit' = [ssplit EXCEPT ![a] = Split(spool, a)]
    /\ sphase' = [sphase EXCEPT ![a] = "split"]
    /\ UNCHANGED <<nonS, spool, sres, smerged>>

\* ClientData::fetch: gather from each sub-pool, in sub-pool order
FetchSubPools(a) ==
    /\ sphase[a] = "split"
    /\ sres' = [sres EXCEPT ![a] = <<ResultsOf(ssplit[a][1]), ResultsOf(ssplit[a][2])>>]
    /\ sphase' = [sphase EXCEPT ![a] = "fetched"]
    /\ UNCHANGED <<nonS, spool, ssplit, smerged>>

\* ClientData::fetch: merge_msg of the two per-sub-pool result vectors
MergePools(a) ==
    /\ sphase[a] = "fetched"
    /\ smerged' = [smerged EXCEPT ![a] = MergeMsg(a, sres[a][1], sres[a][2])]
    /\ sphase' = [sphase EXCEPT ![a] = "merged"]
    /\ UNCHANGED <<nonS, spool, ssplit, sres>>

SplitNext ==
    \/ \E a \in Servers : SplitPool(a)
    \/ \E a \in Servers : FetchSubPools(a)
    \/ \E a \in Servers : MergePools(a)

\* the ascending sequence of the elements of a set of ClientIDs
RECURSIVE AscendingSeq(_)
AscendingSeq(S) ==
    IF S = {} THEN <<>>
    ELSE LET m == CHOOSE x \in S : \A y \in S : x <= y
         IN <<m>> \o AscendingSeq(S \ {m})

\* a pool as ClientsPool::new builds it: sorted, without duplicates
SplitInit ==
    /\ TransportIdle
    /\ PInit([c \in Clients |-> 0])
    /\ CotIdle
    /\ ArithIdle
    /\ \E S \in SUBSET (0 .. MaxPoolUid) : SInit(AscendingSeq(S))

SpecSplit == SplitInit /\ [][SplitNext]_vars

\* ------------------------------------------------------------------------
\* Load balancing: properties
\* ------------------------------------------------------------------------
\* C8: split(is_alice) partitions the pool by ClientID parity into
\* (alice_pool, bob_pool) with every client in exactly one of the two; the
\* two servers place every client in opposite sub-pools, and a server has a
\* client in its alice_pool (acts as OT sender) exactly if the client sent
\* its OT-sender message to that server.
C8_SplitOppositeOnTheTwoServers ==
    \A a \in Servers :
        sphase[a] # "start" =>
            \A n \in DOMAIN spool :
                LET u == spool[n] IN
                /\ InSeq(u, ssplit[a][1]) # InSeq(u, ssplit[a][2])
                /\ InSeq(u, ssplit[a][1]) <=> (ArrangeConn(u) = a)
                /\ sphase[~a] # "start" =>
                       (InSeq(u, ssplit[a][1]) <=> InSeq(u, ssplit[~a][2]))
                /\ Len(ssplit[a][1]) + Len(ssplit[a][2]) = Len(spool)

C8_Witness ==
    /\ \A a \in Servers : sphase[a] # "start"
    /\ \E n \in DOMAIN spool : IsOdd(spool[n])
    /\ \E n \in DOMAIN spool : IsEven(spool[n])

\* C9: for any pool of clients with distinct ClientIDs, merge_msg applied
\* to the per-client results of the two sub-pools of split(is_alice) returns
\* the results in client-index order of the sorted pool.
C9_MergeRestoresPoolOrder ==
    \A a \in Servers : sphase[a] = "merged" => smerged[a] = ResultsOf(spool)

\* ------------------------------------------------------------------------
\* Correlated OT: GF(2^k) arithmetic on blocks
\* ------------------------------------------------------------------------
\* bitwise exclusive or of two naturals
RECURSIVE Xor(_, _)
Xor(a, b) ==
    IF a = 0 THEN b
    ELSE IF b = 0 THEN a
    ELSE (((a % 2) + (b % 2)) % 2) + 2 * Xor(a \div 2, b \div 2)

\* Block::add_gf
AddGf(a, b) == Xor(a, b)

\* GF2_256::add_gf
AddGf256(a, b) == <<AddGf(a[1], b[1]), AddGf(a[2], b[2])>>

\* the carry-less product of two lanes (mul_i64_carryless_m128i)
RECURSIVE MulCarryless(_, _)
MulCarryless(a, b) ==
    IF b = 0 THEN 0
    ELSE Xor(IF b % 2 = 1 THEN a ELSE 0, 2 * MulCarryless(a, b \div 2))

\* the low and the high lane of a block
LoLane(x) == x % HalfSize
HiLane(x) == x \div HalfSize

\* Block::mul_gf_no_reduction: <<low block, high block>> of the product
MulGfNoReduction(self, other) ==
    LET tmp3 == MulCarryless(LoLane(self), LoLane(other))
        tmp4 == MulCarryless(LoLane(self), HiLane(other))
        tmp5 == MulCarryless(HiLane(self), LoLane(other))
        tmp6 == MulCarryless(HiLane(self), HiLane(other))
        mid == Xor(tmp4, tmp5)
        shl == (mid * HalfSize) % BlockSize
        shr == mid \div HalfSize
    IN <<Xor(tmp3, shl), Xor(tmp6, shr)>>

\* inner_product: fold of add_gf over the products, left to right
RECURSIVE InnerProductFrom(_, _, _, _)
InnerProductFrom(prev, a, b, k) ==
    IF k > Len(a) \/ k > Len(b) THEN prev
    ELSE InnerProductFrom(AddGf256(prev, MulGfNoReduction(a[k], b[k])), a, b, k + 1)

InnerProduct(a, b) == InnerProductFrom(<<0, 0>>, a, b, 1)

\* inner_product_with_boolean_scalar: zip stops at the shorter of the two
RECURSIVE BoolProductFrom(_, _, _, _)
BoolProductFrom(prev, a, b, k) ==
    IF k > Len(a) \/ k > Len(b) THEN prev
    ELSE BoolProductFrom(IF a[k] THEN AddGf(prev, b[k]) ELSE prev, a, b, k + 1)

InnerProductWithBooleanScalar(a, b) == BoolProductFrom(0, a, b, 1)

\* ------------------------------------------------------------------------
\* Correlated OT: seeds, the client sampler, the two servers
\* ------------------------------------------------------------------------
\* COTSeed::expand: num_cots blocks, a function of the seed alone
COTSeedExpand(seed, num_cots) ==
    [k \in 1 .. num_cots |-> (seed \div (BlockSize ^ (k - 1))) % BlockSize]

\* ChoiceSeed::expand: r_size bits, a function of the seed alone
ChoiceSeedExpand(seed, r_size) ==
    [k \in 1 .. r_size |-> (seed \div (2 ^ (k - 1))) % 2 = 1]

\* BitsLE::iter of one word: its bits, least significant first
BitsLE(w) == [k \in 1 .. NumBits |-> (w \div (2 ^ (k - 1))) % 2 = 1]

\* inputs_1.iter().flat_map(|x| x.iter())
RECURSIVE FlatBits(_)
FlatBits(ws) == IF ws = <<>> THEN <<>> ELSE BitsLE(Head(ws)) \o FlatBits(Tail(ws))

\* COTSeed::expand_selected: q, or q + delta where the choice bit is set
ExpandSelected_Uncorrelated(seed, num_cots, delta, select) ==
    COTSeedExpand(seed, num_cots)
ExpandSelected(seed, num_cots, delta, select) ==
    LET qs == COTSeedExpand(seed, num_cots)
        n == IF Len(select) < num_cots THEN Len(select) ELSE num_cots
    IN [k \in 1 .. n |-> IF select[k] THEN AddGf(qs[k], delta) ELSE qs[k]]

\* COTGen::sample_cots: the two seeds come from the client's rng
SampleCots ==
    /\ otPhase = "start"
    /\ \E cot_rng_seed \in COTSeeds, choice_rng_seed \in ChoiceSeeds :
        LET choices == FlatBits(otIn.inputs_1)
                           \o ChoiceSeedExpand(choice_rng_seed, NumAdditional)
            ts == ExpandSelected(cot_rng_seed,
                                 Len(otIn.inputs_1) * NumBits + NumAdditional,
                                 otIn.delta, choices)
        IN /\ otToAlice' = [delta |-> otIn.delta, qs_seed |-> cot_rng_seed]
           /\ otToBob' = [r_seed |-> choice_rng_seed, ts |-> ts]
    /\ otPhase' = "sampled"
    /\ otSampler' = "cots"
    /\ UNCHANGED <<nonC, otIn, otTil, otOk, otFlip>>

\* sample_cots_using_selected_bits: q, or q + delta, zipped with the choices
ZipSelect_AlwaysDelta(qs, choices, delta) ==
    [k \in 1 .. (IF Len(choices) < Len(qs) THEN Len(choices) ELSE Len(qs)) |->
        AddGf(qs[k], delta)]
ZipSelect(qs, choices, delta) ==
    [k \in 1 .. (IF Len(choices) < Len(qs) THEN Len(choices) ELSE Len(qs)) |->
        IF choices[k] THEN AddGf(qs[k], delta) ELSE qs[k]]

\* COTGen::sample_cots_using_selected_bits(choice_bits, num_choice_bits,
\* delta, num_additional), called with the bits of the receiver's inputs and
\* their number
SampleCotsUsingSelectedBits ==
    /\ otPhase = "start"
    /\ \E cot_rng_seed \in COTSeeds, choice_rng_seed \in ChoiceSeeds :
        LET choice_bits == FlatBits(otIn.inputs_1)
            num_choice_bits == Len(choice_bits)
            qs == COTSeedExpand(cot_rng_seed, num_choice_bits + NumAdditional)
            r == ChoiceSeedExpand(choice_rng_seed, NumAdditional)
            choices == choice_bits \o r
        IN /\ otToAlice' = [delta |-> otIn.delta, qs_seed |-> cot_rng_seed]
           /\ otToBob' = [r_seed |-> choice_rng_seed,
                          ts |-> ZipSelect(qs, choices, otIn.delta)]
    /\ otPhase' = "sampled"
    /\ otSampler' = "selected"
    /\ UNCHANGED <<nonC, otIn, otTil, otOk, otFlip>>

\* OTReceiver::send_x_til_t_til(ts, chi, inputs_1, r_seed)
SendXTilTTil ==
    /\ otPhase = "sampled"
    /\ Len(otIn.chi) = Len(otToBob.ts)
    /\ Len(otIn.inputs_1) <= Len(otIn.chi)
    /\ Len(otIn.chi) >= Len(otIn.inputs_1) * NumBits
    /\ LET r_size == Len(otIn.chi) - Len(otIn.inputs_1) * NumBits
           r == ChoiceSeedExpand(otToBob.r_seed, r_size)
           x_hat == FlatBits(otIn.inputs_1) \o r
       IN otTil' = [x_til |-> InnerProductWithBooleanScalar(x_hat, otIn.chi),
                    t_til |-> InnerProduct(otToBob.ts, otIn.chi)]
    /\ otPhase' = "sent"
    /\ UNCHANGED <<nonC, otIn, otToAlice, otToBob, otOk, otSampler, otFlip>>

\* verify_and_get_cot: lhs == rhs on GF2_256 (derived PartialEq: both blocks)
VerifyEq_LowBlockOnly(lhs, rhs) == lhs[1] = rhs[1]
VerifyEq(lhs, rhs) == lhs[1] = rhs[1] /\ lhs[2] = rhs[2]

\* OTSender::verify_and_get_cot(qs_seed, chi, delta, x_til, t_til)
VerifyAndGetCot ==
    /\ otPhase = "sent"
    /\ LET num_cots == Len(otIn.chi)
           qs == COTSeedExpand(otToAlice.qs_seed, num_cots)
           q_til == InnerProduct(qs, otIn.chi)
           lhs == otTil.t_til
           rhs == AddGf256(q_til, MulGfNoReduction(otToAlice.delta, otTil.x_til))
       IN otOk' = VerifyEq(lhs, rhs)
    /\ otPhase' = "verified"
    /\ UNCHANGED <<nonC, otIn, otToAlice, otToBob, otTil, otSampler, otFlip>>

CotNext ==
    \/ SampleCots
    \/ SampleCotsUsingSelectedBits
    \/ SendXTilTTil
    \/ VerifyAndGetCot

\* the receiver's inputs, delta and the shared challenge vector are free
CotInit ==
    /\ TransportIdle
    /\ SplitIdle
    /\ PInit([c \in Clients |-> 0])
    /\ ArithIdle
    /\ \E inputs_1 \in [1 .. NumInputs -> Words], delta \in Blocks,
          chi \in [1 .. NumOts -> Blocks] : CInit(inputs_1, delta, chi)

SpecCot == CotInit /\ [][CotNext]_vars

\* one bit of one ts[i] is flipped between the client and the receiver's
\* computation of t_til
FlipBit(i, b) ==
    /\ otPhase = "sampled"
    /\ otFlip = <<>>
    /\ i \in DOMAIN otToBob.ts
    /\ otToBob' = [otToBob EXCEPT !.ts[i] = Xor(@, 2 ^ b)]
    /\ otFlip' = <<i, b>>
    /\ UNCHANGED <<nonC, otPhase, otIn, otToAlice, otTil, otOk, otSampler>>

CotFlipNext ==
    \/ SampleCots
    \/ \E i \in 1 .. NumOts, b \in 0 .. (BlockBits - 1) : FlipBit(i, b)
    \/ SendXTilTTil
    \/ VerifyAndGetCot

SpecCotFlip == CotInit /\ [][CotFlipNext]_vars

\* ------------------------------------------------------------------------
\* Correlated OT: properties
\* ------------------------------------------------------------------------
\* C10: COT verification is complete: for a COT pair produced by the client
\* sampler and any challenge vector chi shared by the two servers, when the
\* receiver computes (x_til, t_til) honestly the sender's verification
\* returns true.
C10_HonestVerificationSucceeds ==
    otPhase = "verified" => otOk

C10_Witness ==
    /\ otPhase = "verified"
    /\ otOk
    /\ otIn.delta # 0
    /\ otTil.x_til # 0
    /\ MulGfNoReduction(otToAlice.delta, otTil.x_til) # <<0, 0>>
    /\ \E k \in DOMAIN otToBob.ts :
           otToBob.ts[k] # COTSeedExpand(otToAlice.qs_seed, NumOts)[k]

C12_SampledPairIsCorrelated ==
    otPhase = "sampled" /\ otFlip = <<>> =>
        LET qs == COTSeedExpand(otToAlice.qs_seed, NumOts)
            choices == FlatBits(otIn.inputs_1)
                           \o ChoiceSeedExpand(otToBob.r_seed, NumAdditional)
        IN /\ Len(otToBob.ts) = NumOts
           /\ \A i \in 1 .. NumOts :
                  otToBob.ts[i] = Xor(qs[i], IF choices[i] THEN otToAlice.delta ELSE 0)

C12_Witness ==
    /\ otPhase = "sampled"
    /\ otSampler = "selected"
    /\ otToAlice.delta # 0
    /\ ChoiceSeedExpand(otToBob.r_seed, NumAdditional)[NumAdditional]
    /\ otToBob.ts[NumOts] # COTSeedExpand(otToAlice.qs_seed, NumOts)[NumOts]
    /\ \E i \in 1 .. NumOts : otToBob.ts[i] = COTSeedExpand(otToAlice.qs_seed, NumOts)[i]

\* ------------------------------------------------------------------------
\* Arithmetic shares: the ring operations of UInt
\* ------------------------------------------------------------------------
WrappingAdd(a, b) == (a + b) % ArithSize
WrappingSub(a, b) == (a + ArithSize - b) % ArithSize
WrappingNeg(a) == (ArithSize - a) % ArithSize
WrappingMul(a, b) == (a * b) % ArithSize
\* t << i
ShiftLeft(a, i) == (a * (2 ^ i)) % ArithSize
\* 1 << bit_length on a word of the ring overflows: a build with overflow
\* checks panics, any other build shifts by bit_length modulo the width
ShlOverflows(bit_length) == bit_length >= ArithBits
\* modulo_2_power: self & ((1 << bit_length) - 1), where nothing panics
Modulo2Power(a, bit_length) == a % (2 ^ (bit_length % ArithBits))
FromBool(b) == IF b THEN 1 ELSE 0
\* the word the bits of a BitsLE spell, and its two boolean shares
XorWord(a, b) == Xor(a, b)
\* as_uint: into the ring of the arithmetic shares
AsUint(w) == IF ArithBits < NumBits THEN w % ArithSize ELSE w

\* ------------------------------------------------------------------------
\* B2A: COT to ROT, bit multiplication, bit composition
\* ------------------------------------------------------------------------
\* MiTCCR::hash at position k: the input xor its encryption under key k
\* (the key is start_point xor the position)
MiTCCRHash(enc, k, b) == Xor(b, enc[Xor(b, k % BlockSize)])
\* UInt::from_rot: the low bits of the hashed block
FromRot(h) == h % ArithSize

\* cot_to_rot_sender_side: <<v0s, v1s>>
CotToRotSenderSide(enc, q, delta) ==
    <<[k \in DOMAIN q |-> FromRot(MiTCCRHash(enc, k, q[k]))],
      [k \in DOMAIN q |-> FromRot(MiTCCRHash(enc, k, AddGf(q[k], delta)))]>>

\* cot_to_rot_receiver_side
CotToRotReceiverSide(enc, ts) ==
    [k \in DOMAIN ts |-> FromRot(MiTCCRHash(enc, k, ts[k]))]

\* bit_mul_as_ot_sender(j, x0, v0, v1): <<y0, u>>
BitMulAsOtSender(j, x0, v0, v1) ==
    <<Modulo2Power(WrappingNeg(v0), j),
      Modulo2Power(WrappingAdd(WrappingAdd(v0, v1), FromBool(x0)), j)>>

\* bit_mul_as_ot_receiver(j, x1, v, u)
BitMulAsOtReceiver_IgnoreU(j, x1, v, u) == Modulo2Power(v, j)
BitMulAsOtReceiver(j, x1, v, u) ==
    IF x1 THEN Modulo2Power(WrappingSub(u, v), j) ELSE Modulo2Power(v, j)

\* bit_comp_as_ot_sender_single: us_dest, bit i of the word is x0s[i + 1]
SenderUs(x0s, v0s, v1s) ==
    [k \in 1 .. NumBits |-> BitMulAsOtSender(ArithBits - k, x0s[k], v0s[k], v1s[k])[2]]

\* bit_comp_as_ot_sender_single: z, summed over the bits from bit k on
RECURSIVE SenderZ(_, _, _, _)
SenderZ(x0s, v0s, v1s, k) ==
    IF k > NumBits THEN 0
    ELSE LET y0 == BitMulAsOtSender(ArithBits - k, x0s[k], v0s[k], v1s[k])[1]
             t == WrappingSub(FromBool(x0s[k]), WrappingAdd(y0, y0))
         IN WrappingAdd(ShiftLeft(t, k - 1), SenderZ(x0s, v0s, v1s, k + 1))

\* bit_comp_as_ot_receiver_single: z, summed over the bits from bit k on
RECURSIVE ReceiverZ(_, _, _, _)
ReceiverZ(x1s, vs, us, k) ==
    IF k > NumBits THEN 0
    ELSE LET y1 == BitMulAsOtReceiver(ArithBits - k, x1s[k], vs[k], us[k])
             t == WrappingSub(FromBool(x1s[k]), WrappingAdd(y1, y1))
         IN WrappingAdd(ShiftLeft(t, k - 1), ReceiverZ(x1s, vs, us, k + 1))

\* chunks(NUM_BITS): the n-th chunk
Chunk(q, n) == SubSeq(q, (n - 1) * NumBits + 1, n * NumBits)

\* bit_comp_as_ot_sender_batch(inputs_0, delta, qs): <<y0s, us>>
BitCompAsOtSenderBatch(enc, inputs_0, delta, qs) ==
    LET rot == CotToRotSenderSide(enc, qs, delta)
        us == [n \in DOMAIN inputs_0 |->
                  SenderUs(BitsLE(inputs_0[n]), Chunk(rot[1], n), Chunk(rot[2], n))]
    IN <<[n \in DOMAIN inputs_0 |->
             SenderZ(BitsLE(inputs_0[n]), Chunk(rot[1], n), Chunk(rot[2], n), 1)],
         [k \in DOMAIN qs |-> us[((k - 1) \div NumBits) + 1][((k - 1) % NumBits) + 1]]>>

\* bit_comp_as_ot_receiver_batch(inputs_1, ts, us)
BitCompAsOtReceiverBatch(enc, inputs_1, ts, us) ==
    LET vs == CotToRotReceiverSide(enc, ts)
    IN [n \in DOMAIN inputs_1 |->
           ReceiverZ(BitsLE(inputs_1[n]), Chunk(vs, n), Chunk(us, n), 1)]

\* b2a_end_to_end_template: boolean shares of the inputs, then sample_cots on
\* the receiver's share
B2aSampleCots ==
    /\ b2aPhase = "start"
    /\ \E cot_rng_seed \in COTSeeds, choice_rng_seed \in ChoiceSeeds :
        LET inputs_1 == [n \in DOMAIN b2aIn.inputs |->
                            XorWord(b2aIn.inputs[n], b2aIn.inputs_0[n])]
            choices == FlatBits(inputs_1)
                           \o ChoiceSeedExpand(choice_rng_seed, NumAdditional)
            num == Len(inputs_1) * NumBits + NumAdditional
        IN /\ b2aIn' = [b2aIn EXCEPT !.inputs_1 = inputs_1]
           /\ b2aCot' = [qs |-> COTSeedExpand(cot_rng_seed, num),
                         ts |-> ExpandSelected(cot_rng_seed, num, b2aIn.delta, choices)]
    /\ b2aPhase' = "sampled"
    /\ UNCHANGED <<nonB, b2aOut>>

\* the OT sender: bit_comp_as_ot_sender_batch on qs[..num_bits]
B2aSender ==
    /\ b2aPhase = "sampled"
    /\ LET num_bits == Len(b2aIn.inputs_0) * NumBits
           r == BitCompAsOtSenderBatch(b2aIn.enc, b2aIn.inputs_0, b2aIn.delta,
                                       SubSeq(b2aCot.qs, 1, num_bits))
       IN b2aOut' = [b2aOut EXCEPT !.y0s = r[1], !.us = r[2]]
    /\ b2aPhase' = "sender"
    /\ UNCHANGED <<nonB, b2aIn, b2aCot>>

\* the OT receiver: bit_comp_as_ot_receiver_batch on ts[..num_bits] and us
B2aReceiver ==
    /\ b2aPhase = "sender"
    /\ LET num_bits == Len(b2aIn.inputs_1) * NumBits
       IN /\ Len(b2aOut.us) = num_bits
          /\ b2aOut' = [b2aOut EXCEPT !.y1s =
                 BitCompAsOtReceiverBatch(b2aIn.enc, b2aIn.inputs_1,
                                          SubSeq(b2aCot.ts, 1, num_bits), b2aOut.us)]
    /\ b2aPhase' = "done"
    /\ UNCHANGED <<nonB, b2aIn, b2aCot>>

B2aNext ==
    \/ B2aSampleCots
    \/ B2aSender
    \/ B2aReceiver

\* the inputs, the sender's boolean share, delta and the cipher are free
B2aInit ==
    /\ TransportIdle
    /\ SplitIdle
    /\ CotIdle
    /\ PInit([c \in Clients |-> 0])
    /\ RestIdle
    /\ CorrIdle
    /\ A2sIdle
    /\ MainIdle
    /\ \E inputs \in [1 .. NumInputs -> Words], inputs_0 \in [1 .. NumInputs -> Words],
          delta \in Blocks, enc \in Ciphers : BInit(inputs, inputs_0, delta, enc)

SpecB2a == B2aInit /\ [][B2aNext]_vars

\* C13: B2A round trip: for any input vector of N words that is XOR-shared
\* between the two servers, with honest COTs, the arithmetic shares of the OT
\* sender (y0s) and of the OT receiver (y1s) add up to the input in the ring:
\* y0s[n] + y1s[n] = x[n] for every n.
C13_B2aRoundTrip ==
    b2aPhase = "done" =>
        /\ Len(b2aOut.y0s) = Len(b2aIn.inputs)
        /\ Len(b2aOut.y1s) = Len(b2aIn.inputs)
        /\ \A n \in DOMAIN b2aIn.inputs :
               WrappingAdd(b2aOut.y0s[n], b2aOut.y1s[n]) = AsUint(b2aIn.inputs[n])

C13_Witness ==
    /\ b2aPhase = "done"
    /\ b2aIn.inputs[1] = 2 ^ NumBits - 1
    /\ b2aIn.inputs_0[1] # 0
    /\ b2aIn.inputs_1[1] # 0
    /\ b2aOut.y0s[1] # 0
    /\ b2aOut.y1s[1] > b2aIn.inputs[1]
    /\ b2aIn.delta # 0

\* ------------------------------------------------------------------------
\* Square correlations: shares made by the client
\* ------------------------------------------------------------------------
\* T::rand on an rng seeded with seed, k-th draw, in the ring of size m: a
\* function of the seed and the position, onto the ring as the seed varies
Rand(m, seed, k) == (seed * (2 * k + 1) + 3 * k) % m

\* batch_make_sqcorr_shares: <<a0c0, a1c1>>, sequences of <<a, c>> with
\* a1 drawn, c = (a0 + a1)^2 and c1 = c - c0
BatchMakeSqcorrShares(a0_seed, a1_seed, c0_seed, size) ==
    <<[k \in 1 .. size |-> <<Rand(CorrSize, a0_seed, k), Rand(CorrSize, c0_seed, k)>>],
      [k \in 1 .. size |->
          LET a == (Rand(CorrSize, a0_seed, k) + Rand(CorrSize, a1_seed, k)) % CorrSize
          IN <<Rand(CorrSize, a1_seed, k),
               (a * a - Rand(CorrSize, c0_seed, k)) % CorrSize>>]>>

\* UInt::arith_shares of every word of x: s0 drawn, s1 = x - s0
ArithShares(x, seed) ==
    <<[k \in DOMAIN x |-> Rand(ArithSize, seed, k)],
      [k \in DOMAIN x |-> WrappingSub(x[k], Rand(ArithSize, seed, k))]>>

\* SquareCorrShare::cut: both words truncated into the ring of the shares
Cut(s) == <<s[1] % ArithSize, s[2] % ArithSize>>

\* ------------------------------------------------------------------------
\* A2S: shares of x to shares of x * x
\* ------------------------------------------------------------------------
\* a2s_first: e_b = x_b - a_b
A2sFirst(xb, corr_b) == WrappingSub(xb, corr_b[1])

\* a2s_second: 2 e x_b + c_b, minus e^2 on Alice
A2sSecond_NoSquare(party, e, xb, corr_b) ==
    WrappingAdd(WrappingMul(WrappingAdd(e, e), xb), corr_b[2])
A2sSecond(party, e, xb, corr_b) ==
    LET e_doubled == WrappingAdd(e, e)
        t1 == WrappingAdd(WrappingMul(e_doubled, xb), corr_b[2])
    IN IF party = ALICE THEN WrappingSub(t1, WrappingMul(e, e)) ELSE t1

\* a2s: square_corr[..size] cut into the ring of the shares
A2sCorr(p) == [k \in DOMAIN a2sIn.xb[p] |-> Cut(a2sIn.square_corr[p][k])]

\* a2s up to the exchange: batch_a2s_first, eb sent to the peer
A2sSendE(p) ==
    /\ a2sPhase[p] = "start"
    /\ a2sOut' = [a2sOut EXCEPT !.eb[p] =
           [k \in DOMAIN a2sIn.xb[p] |-> A2sFirst(a2sIn.xb[p][k], A2sCorr(p)[k])]]
    /\ a2sPhase' = [a2sPhase EXCEPT ![p] = "first"]
    /\ UNCHANGED <<nonA, a2sIn>>

\* a2s after the exchange: e = eb + eb_other, batch_a2s_second
A2sSquare(p) ==
    /\ a2sPhase[p] = "first"
    /\ a2sPhase[~p] # "start"
    /\ Len(a2sOut.eb[p]) = Len(a2sOut.eb[~p])
    /\ LET e == [k \in DOMAIN a2sOut.eb[p] |->
                    WrappingAdd(a2sOut.eb[p][k], a2sOut.eb[~p][k])]
       IN a2sOut' = [a2sOut EXCEPT !.x_sq[p] =
              [k \in DOMAIN e |-> A2sSecond(p, e[k], a2sIn.xb[p][k], A2sCorr(p)[k])]]
    /\ a2sPhase' = [a2sPhase EXCEPT ![p] = "done"]
    /\ UNCHANGED <<nonA, a2sIn>>

A2sNext ==
    \/ \E p \in Parties : A2sSendE(p)
    \/ \E p \in Parties : A2sSquare(p)

\* x, the seed of its sharing and the seeds of the correlation shares are free
A2sInit ==
    /\ TransportIdle
    /\ SplitIdle
    /\ CotIdle
    /\ PInit([c \in Clients |-> 0])
    /\ RestIdle
    /\ B2aIdle
    /\ CorrIdle
    /\ MainIdle
    /\ \E x \in [1 .. NumElems -> Ring], seed \in Ring,
          a0_seed \in 0 .. (NumSeeds - 1), a1_seed \in CorrRing,
          c0_seed \in 0 .. (NumSeeds - 1) :
          LET xs == ArithShares(x, seed)
              corr == BatchMakeSqcorrShares(a0_seed, a1_seed, c0_seed, 2 * NumElems)
          IN AInit(x, xs[1], xs[2], corr[1], corr[2])

SpecA2s == A2sInit /\ [][A2sNext]_vars

\* C14: A2S round trip: for any additively shared x and any valid shares of a
\* square correlation, when the two servers run a2s with opposite party roles
\* the results add up to the square of x in the ring of the shares:
\* x_sq_alice[i] + x_sq_bob[i] = x[i] * x[i] for every i.
C14_A2sRoundTrip ==
    (\A p \in Parties : a2sPhase[p] = "done") =>
        /\ Len(a2sOut.x_sq[ALICE]) = Len(a2sIn.x)
        /\ Len(a2sOut.x_sq[BOB]) = Len(a2sIn.x)
        /\ \A k \in DOMAIN a2sIn.x :
               WrappingAdd(a2sOut.x_sq[ALICE][k], a2sOut.x_sq[BOB][k])
                   = WrappingMul(a2sIn.x[k], a2sIn.x[k])

C14_Witness ==
    /\ \A p \in Parties : a2sPhase[p] = "done"
    /\ a2sIn.x[1] = ArithSize - 1
    /\ a2sIn.x[2] = 3
    /\ a2sOut.x_sq[BOB][2] # 0
    /\ a2sOut.x_sq[ALICE][2] # 1
    /\ WrappingAdd(a2sOut.eb[ALICE][2], a2sOut.eb[BOB][2]) # 0
    /\ a2sIn.square_corr[ALICE][2][1] + a2sIn.square_corr[BOB][2][1] >= CorrSize

\* ------------------------------------------------------------------------
\* Square correlation verification by sacrifice
\* ------------------------------------------------------------------------
\* SquareCorrShare::open_d: a share of d = t a - a'
OpenD(t, s, sacrificed) == (t * s[1] - sacrificed[1]) % CorrSize

\* SquareCorrShare::open_w: t^2 c - c' - 2 t d a, plus d^2 on Alice
OpenW_NoSquare(party, t, s, sacrificed, d) ==
    (t * t * s[2] - sacrificed[2] - 2 * (t * d * s[1])) % CorrSize
OpenW(party, t, s, sacrificed, d) ==
    LET t1 == (t * t * s[2] - sacrificed[2]) % CorrSize
        t2 == (2 * ((t * d * s[1]) % CorrSize)) % CorrSize
    IN IF party = ALICE THEN (t1 - t2 + d * d) % CorrSize ELSE (t1 - t2) % CorrSize

\* corr_verify: input_len, the challenges t, corr_b and sacr_b of server p
InputLen(p) == Len(cvIn.square_corr[p]) \div 2
ChallengeT(p) == [k \in 1 .. InputLen(p) |-> Rand(CorrSize, cvIn.t_seed, k)]
CorrB(p) == SubSeq(cvIn.square_corr[p], 1, InputLen(p))
SacrB(p) == SubSeq(cvIn.square_corr[p], InputLen(p) + 1, 2 * InputLen(p))

\* the w the two servers open for element k
OpenedW(k) == (cvOut.wb[ALICE][k] + cvOut.wb[BOB][k]) % CorrSize

\* the word c with bit b flipped
FlipBitOf(c, b) == IF (c \div (2 ^ b)) % 2 = 1 THEN c - 2 ^ b ELSE c + 2 ^ b

\* one bit of one c share of server p's batch is corrupted before the
\* verification starts
CorruptC(p, k, b) ==
    /\ \A q \in Parties : cvPhase[q] = "start"
    /\ cvFlip = <<>>
    /\ cvIn' = [cvIn EXCEPT !.square_corr[p][k][2] = FlipBitOf(@, b)]
    /\ cvFlip' = <<p, k, b>>
    /\ UNCHANGED <<nonK, cvPhase, cvOut>>

\* corr_verify up to the first exchange: verify_phase_1, db sent to the peer
CorrVerifyPhase1(p) ==
    /\ cvPhase[p] = "start"
    /\ Len(cvIn.square_corr[p]) = InputLen(p) * 2
    /\ cvOut' = [cvOut EXCEPT !.db[p] =
           [k \in 1 .. InputLen(p) |-> OpenD(ChallengeT(p)[k], CorrB(p)[k], SacrB(p)[k])]]
    /\ cvPhase' = [cvPhase EXCEPT ![p] = "phase1"]
    /\ UNCHANGED <<nonK, cvIn, cvFlip>>

\* corr_verify between the exchanges: d = db + db_other, verify_phase_2, wb
\* sent to the peer
CorrVerifyPhase2(p) ==
    /\ cvPhase[p] = "phase1"
    /\ cvPhase[~p] # "start"
    /\ Len(cvOut.db[p]) = Len(cvOut.db[~p])
    /\ LET d == [k \in DOMAIN cvOut.db[p] |-> (cvOut.db[p][k] + cvOut.db[~p][k]) % CorrSize]
       IN cvOut' = [cvOut EXCEPT !.wb[p] =
              [k \in 1 .. InputLen(p) |->
                  OpenW(p, ChallengeT(p)[k], CorrB(p)[k], SacrB(p)[k], d[k])]]
    /\ cvPhase' = [cvPhase EXCEPT ![p] = "phase2"]
    /\ UNCHANGED <<nonK, cvIn, cvFlip>>

\* corr_verify after the second exchange: the number of elements whose
\* opened w is zero
CorrVerifyCount(p) ==
    /\ cvPhase[p] = "phase2"
    /\ cvPhase[~p] \in {"phase2", "done"}
    /\ Len(cvOut.wb[p]) = Len(cvOut.wb[~p])
    /\ cvOut' = [cvOut EXCEPT !.count[p] =
           Cardinality({k \in DOMAIN cvOut.wb[p] : OpenedW(k) = 0})]
    /\ cvPhase' = [cvPhase EXCEPT ![p] = "done"]
    /\ UNCHANGED <<nonK, cvIn, cvFlip>>

CorrNext ==
    \/ \E p \in Parties, k \in 1 .. (2 * NumElems), b \in 0 .. (CorrBits - 1) :
           CorruptC(p, k, b)
    \/ \E p \in Parties : CorrVerifyPhase1(p)
    \/ \E p \in Parties : CorrVerifyPhase2(p)
    \/ \E p \in Parties : CorrVerifyCount(p)

\* the client's share seeds and the t seed are free
CorrInit ==
    /\ TransportIdle
    /\ SplitIdle
    /\ CotIdle
    /\ PInit([c \in Clients |-> 0])
    /\ RestIdle
    /\ B2aIdle
    /\ A2sIdle
    /\ MainIdle
    /\ \E a0_seed \in 0 .. (NumSeeds - 1), a1_seed \in CorrRing,
          c0_seed \in 0 .. (NumSeeds - 1), t_seed \in CorrRing :
          LET corr == BatchMakeSqcorrShares(a0_seed, a1_seed, c0_seed, 2 * NumElems)
          IN KInit(corr[1], corr[2], t_seed)

SpecCorr == CorrInit /\ [][CorrNext]_vars

\* both servers have sent their wb
CorrOpened == \A p \in Parties : cvPhase[p] \in {"phase2", "done"}

\* C15: square-correlation verification on honest shares passes for every
\* element: for every element index and every challenge t the two opened
\* shares of w add up to zero, and the count a server returns equals the
\* number of elements.
C15_HonestCorrelationsPass ==
    cvFlip = <<>> =>
        /\ CorrOpened => \A k \in 1 .. NumElems : OpenedW(k) = 0
        /\ \A p \in Parties : cvPhase[p] = "done" => cvOut.count[p] = NumElems

C15_Witness ==
    /\ cvFlip = <<>>
    /\ \A p \in Parties : cvPhase[p] = "done" /\ cvOut.count[p] = NumElems
    /\ ChallengeT(ALICE)[1] > 2
    /\ cvOut.wb[ALICE][1] # 0
    /\ cvOut.wb[BOB][2] # 0
    /\ (cvOut.db[ALICE][1] + cvOut.db[BOB][1]) % CorrSize # 0
    /\ cvIn.square_corr[ALICE][1][2] # 0

\* the element the corrupted share belongs to
CorruptedElem == ((cvFlip[2] - 1) % NumElems) + 1

\* C16: when exactly one c share of an otherwise honest batch is corrupted
\* (one bit of it flipped), the opened w of the corresponding element is
\* non-zero and the opened w of every other element is zero, so exactly one
\* element fails.
C16_CorruptedElementFails ==
    cvFlip # <<>> =>
        /\ CorrOpened => \A k \in 1 .. NumElems : (OpenedW(k) # 0) <=> (k = CorruptedElem)
        /\ \A p \in Parties : cvPhase[p] = "done" => cvOut.count[p] = NumElems - 1

\* ------------------------------------------------------------------------
\* Transcript hashing
\* ------------------------------------------------------------------------
\* the number of values of a digest
HashSize == 251
\* make_hasher: a hasher that absorbed nothing
NewHasher == 0
\* the hasher updated with one word of a serialized message
Absorb1(h, w) == (h * 31 + w + 1) % HashSize

RECURSIVE AbsorbWords(_, _)
AbsorbWords(h, ws) ==
    IF ws = <<>> THEN h ELSE AbsorbWords(Absorb1(h, Head(ws)), Tail(ws))

\* MessageHash::absorb of a Vec: its u64 length, then its items
AbsorbVec(h, v) == AbsorbWords(Absorb1(h, Len(v)), v)
\* MessageHash::digest
Digest(h) == (h * 31 + 17) % HashSize
\* bytes_to_seed_pairs: the first and the second u64 of the digest
BytesToSeedPairs(d) == <<d % CorrSize, (d \div CorrSize) % CorrSize>>

\* MessageHash::absorb of (x_til.use_cast(), t_til)
AbsorbTil(h, til) == AbsorbWords(h, <<til[1], til[2][1], til[2][2]>>)

\* absorb of the phase-1 message (ClientL2MsgToAlice, hash_a2s_ba)
AbsorbPhase1A(m) ==
    AbsorbWords(NewHasher, <<m.inputs_0, m.cot.delta, m.cot.qs_seed,
                             m.square_corr.a_seed, m.square_corr.c_seed, m.hash_a2s_ba>>)

\* absorb of the phase-1 message (ClientL2MsgToBob, hash_b2a_ab, hash_a2s_ab)
AbsorbPhase1B(m) ==
    LET h1 == AbsorbVec(NewHasher, m.inputs_1)
        h2 == AbsorbVec(Absorb1(h1, m.cot.r_seed), m.cot.ts)
        h3 == AbsorbVec(Absorb1(h2, m.square_corr.a_seed), m.square_corr.c)
    IN AbsorbWords(h3, <<m.hash_b2a_ab, m.hash_a2s_ab>>)

\* ------------------------------------------------------------------------
\* The client: prepare_message and the simulation of the servers
\* ------------------------------------------------------------------------
\* the MiTCCR cipher under START_POINT: one fixed permutation of the blocks
RotCipher == [b \in Blocks |-> (3 * b + 1) % BlockSize]
\* sample_chi(n, seed)
SampleChi(n, seed) == [k \in 1 .. n |-> Rand(BlockSize, seed, k)]
\* SeededInputShare::expand(gsize)
InputsExpand(seed, gsize) == [n \in 1 .. gsize |-> Rand(2 ^ NumBits, seed, n)]
\* CorrShareSeedToAlice::expand(size) and CorrShareSeedToBob::expand
ExpandToAlice(s, size) ==
    [k \in 1 .. size |-> <<Rand(CorrSize, s.a_seed, k), Rand(CorrSize, s.c_seed, k)>>]
ExpandToBob(s) == [k \in DOMAIN s.c |-> <<Rand(CorrSize, s.a_seed, k), s.c[k]>>]

\* OTReceiver::send_x_til_t_til(ts, chi, inputs_1, r_seed): <<x_til, t_til>>
XTilTTil(ts, chi, inputs_1, r_seed) ==
    LET r_size == Len(chi) - Len(inputs_1) * NumBits
        x_hat == FlatBits(inputs_1) \o ChoiceSeedExpand(r_seed, r_size)
    IN <<InnerProductWithBooleanScalar(x_hat, chi), InnerProduct(ts, chi)>>

\* OTSender::verify_and_get_cot: the boolean it returns
VerifyCot(qs_seed, chi, delta, til) ==
    VerifyEq(til[2], AddGf256(InnerProduct(COTSeedExpand(qs_seed, Len(chi)), chi),
                              MulGfNoReduction(delta, til[1])))

\* verify_phase_1 and verify_phase_2 over a batch
VerifyPhase1(corr, sacr, t) ==
    [k \in DOMAIN corr |-> OpenD(t[k], corr[k], sacr[k])]
VerifyPhase2(party, corr, sacr, t, d) ==
    [k \in DOMAIN corr |-> OpenW(party, t[k], corr[k], sacr[k], d[k])]

\* zip_map(a, b, wrapping_add) in the ring of size m
ZipAdd(m, a, b) ==
    [k \in 1 .. (IF Len(a) < Len(b) THEN Len(a) ELSE Len(b)) |-> (a[k] + b[k]) % m]

\* the challenges t of a t_seed
TOfSeed(t_seed, gsize) == [k \in 1 .. gsize |-> Rand(CorrSize, t_seed, k)]

\* simulate_b2a: <<y0, y1, us>>, us is what hasher_ab absorbs
SimulateB2a(inputs_0, inputs_1, cot_alice, cot_bob) ==
    LET num_ot == Len(inputs_0) * NumBits
        qs == COTSeedExpand(cot_alice.qs_seed, num_ot)
        ts == SubSeq(cot_bob.ts, 1, num_ot)
        r == BitCompAsOtSenderBatch(RotCipher, inputs_0, cot_alice.delta, qs)
    IN <<r[1], BitCompAsOtReceiverBatch(RotCipher, inputs_1, ts, r[2]), r[2]>>

\* simulate_a2s: <<e0, e1>>, absorbed by hasher_ab and hasher_ba
SimulateA2s(gsize, sqcorr_alice, sqcorr_bob, y0, y1) ==
    <<[k \in 1 .. gsize |-> A2sFirst(y0[k], Cut(sqcorr_alice[k]))],
      [k \in 1 .. gsize |-> A2sFirst(y1[k], Cut(sqcorr_bob[k]))]>>

\* simulate_sqcorr_verify: d0, w0 absorbed by hasher_ab, d1, w1 by hasher_ba
SimulateSqcorrVerify(gsize, sqcorr_alice, sqcorr_bob, t_seed) ==
    LET t == TOfSeed(t_seed, gsize)
        corr_0 == SubSeq(sqcorr_alice, 1, gsize)
        sacr_0 == SubSeq(sqcorr_alice, gsize + 1, 2 * gsize)
        corr_1 == SubSeq(sqcorr_bob, 1, gsize)
        sacr_1 == SubSeq(sqcorr_bob, gsize + 1, 2 * gsize)
        d0 == VerifyPhase1(corr_0, sacr_0, t)
        d1 == VerifyPhase1(corr_1, sacr_1, t)
        d == ZipAdd(CorrSize, d0, d1)
    IN [d0 |-> d0, d1 |-> d1,
        w0 |-> VerifyPhase2(ALICE, corr_0, sacr_0, t, d),
        w1 |-> VerifyPhase2(BOB, corr_1, sacr_1, t, d)]

\* Client::prepare_message(input, rng) for the rng of seed r: the messages
\* to the client's Alice and to its Bob, with the digests of both phases
PrepareMessage(input, r) ==
    LET gsize == Len(input)
        inputs_0_seed == Rand(2 ^ NumBits, r, 1)
        inputs_0 == InputsExpand(inputs_0_seed, gsize)
        inputs_1 == [n \in 1 .. gsize |-> XorWord(input[n], inputs_0[n])]
        delta == Rand(BlockSize, r, 2)
        cot_rng_seed == Rand(BlockSize ^ (gsize * NumBits + NumAdditional), r, 3)
        choice_rng_seed == Rand(2 ^ NumAdditional, r, 4)
        num == gsize * NumBits + NumAdditional
        choices == FlatBits(inputs_1) \o ChoiceSeedExpand(choice_rng_seed, NumAdditional)
        cot_s == [delta |-> delta, qs_seed |-> cot_rng_seed]
        cot_r == [r_seed |-> choice_rng_seed,
                  ts |-> ExpandSelected(cot_rng_seed, num, delta, choices)]
        a0_seed == Rand(CorrSize, r, 5)
        a1_seed == Rand(CorrSize, r, 6)
        c0_seed == Rand(CorrSize, r, 7)
        sq == BatchMakeSqcorrShares(a0_seed, a1_seed, c0_seed, gsize * 2)
        corr0 == [a_seed |-> a0_seed, c_seed |-> c0_seed]
        corr1 == [a_seed |-> a1_seed, c |-> [k \in DOMAIN sq[2] |-> sq[2][k][2]]]
        b2a == SimulateB2a(inputs_0, inputs_1, cot_s, cot_r)
        e == SimulateA2s(gsize, sq[1], sq[2], b2a[1], b2a[2])
        phase1_a == [inputs_0 |-> inputs_0_seed, cot |-> cot_s, square_corr |-> corr0,
                     hash_a2s_ba |-> Digest(AbsorbVec(NewHasher, e[2]))]
        phase1_b == [inputs_1 |-> inputs_1, cot |-> cot_r, square_corr |-> corr1,
                     hash_b2a_ab |-> Digest(AbsorbVec(NewHasher, b2a[3])),
                     hash_a2s_ab |-> Digest(AbsorbVec(NewHasher, e[1]))]
        fs_a == BytesToSeedPairs(Digest(AbsorbPhase1A(phase1_a)))
        fs_b == BytesToSeedPairs(Digest(AbsorbPhase1B(phase1_b)))
        chi_seed == Xor(fs_a[1], fs_b[1])
        t_seed == Xor(fs_a[2], fs_b[2])
        til == XTilTTil(cot_r.ts, SampleChi(num, chi_seed), inputs_1, cot_r.r_seed)
        sqv == SimulateSqcorrVerify(gsize, sq[1], sq[2], t_seed)
    IN [alice |-> [inputs_0 |-> phase1_a.inputs_0, cot |-> cot_s, square_corr |-> corr0,
                   hash_a2s_ba |-> phase1_a.hash_a2s_ba,
                   hash_ot_ba |-> Digest(AbsorbTil(NewHasher, til)),
                   hash_sqcorr_ba |->
                       Digest(AbsorbVec(AbsorbVec(NewHasher, sqv.d1), sqv.w1))],
        bob |-> [inputs_1 |-> inputs_1, cot |-> cot_r, square_corr |-> corr1,
                 hash_b2a_ab |-> phase1_b.hash_b2a_ab,
                 hash_a2s_ab |-> phase1_b.hash_a2s_ab,
                 hash_sqcorr_ab |->
                     Digest(AbsorbVec(AbsorbVec(NewHasher, sqv.d0), sqv.w0))]]

\* ------------------------------------------------------------------------
\* The servers: ClientData::fetch
\* ------------------------------------------------------------------------
\* options.gsize
Gsize == NumInputs
\* the PARTY a server runs corr_verify (for its Bob clients) and a2s with
PartyOf(s) == IF s THEN ALICE ELSE BOB
Min(a, b) == IF a < b THEN a ELSE b
Count(flags) == Cardinality({k \in DOMAIN flags : flags[k]})

\* clients.split(is_alice)
ClientsAlice(s) == Split(mPool, s)[1]
ClientsBob(s) == Split(mPool, s)[2]
\* subscribe_and_get(RecvId::FIRST) on the two sub-pools
AliceMsg(s) == [k \in DOMAIN ClientsAlice(s) |-> mMsg[ClientsAlice(s)[k]].alice]
BobMsg(s) == [k \in DOMAIN ClientsBob(s) |-> mMsg[ClientsBob(s)[k]].bob]

\* the Fiat-Shamir seed pairs of the phase-1 messages
SeedsA(s) ==
    [k \in DOMAIN AliceMsg(s) |-> BytesToSeedPairs(Digest(AbsorbPhase1A(AliceMsg(s)[k])))]
SeedsB(s) ==
    [k \in DOMAIN BobMsg(s) |-> BytesToSeedPairs(Digest(AbsorbPhase1B(BobMsg(s)[k])))]

\* chi_seed_share (j = 1) and t_seed_share (j = 2)
SeedShare(s, j) ==
    MergeMsg(s, [k \in DOMAIN SeedsA(s) |-> SeedsA(s)[k][j]],
                [k \in DOMAIN SeedsB(s) |-> SeedsB(s)[k][j]])

SqcorrAlice(s) ==
    [k \in DOMAIN AliceMsg(s) |-> ExpandToAlice(AliceMsg(s)[k].square_corr, Gsize * 2)]
SqcorrBob(s) == [k \in DOMAIN BobMsg(s) |-> ExpandToBob(BobMsg(s)[k].square_corr)]
HashA2s(s) ==
    MergeMsg(s, [k \in DOMAIN AliceMsg(s) |-> AliceMsg(s)[k].hash_a2s_ba],
                [k \in DOMAIN BobMsg(s) |-> BobMsg(s)[k].hash_a2s_ab])

\* ------------------------------------------------------------------------
\* The servers: main_with_option
\* ------------------------------------------------------------------------
\* batch_xor
BatchXor(a, b) == [k \in DOMAIN a |-> Xor(a[k], b[k])]

\* the items of msg at the 0-based indices of parity par
AtParity(msg, par) == [j \in 1 .. ((Len(msg) + 1 - par) \div 2) |-> msg[2 * j - 1 + par]]
\* ClientsPool::split_iter(is_alice, msg): <<alice, bob>>
SplitIter(is_alice, msg) ==
    IF is_alice THEN <<AtParity(msg, 0), AtParity(msg, 1)>>
    ELSE <<AtParity(msg, 1), AtParity(msg, 0)>>

\* chi_seed and t_seed after the exchange with the peer
ChiSeed(s) == BatchXor(SeedShare(s, 1), SeedShare(~s, 1))
TSeed(s) == BatchXor(SeedShare(s, 2), SeedShare(~s, 2))
Chis(s) == SplitIter(s, [k \in DOMAIN ChiSeed(s) |-> SampleChi(NumOts, ChiSeed(s)[k])])
TSeeds(s) == SplitIter(s, TSeed(s))

\* the number of tasks each zip of per-client vectors makes
NumOtAlice(s) == Min(Len(ClientsAlice(s)), Len(Chis(s)[1]))
NumOtBob(s) == Min(Len(ClientsBob(s)), Len(Chis(s)[2]))
NumSqAlice(s) == Min(Len(ClientsAlice(s)), Len(TSeeds(s)[1]))
NumSqBob(s) == Min(Len(ClientsBob(s)), Len(TSeeds(s)[2]))

\* what each step of a server waits for: the step before it, and the
\* messages of the peer its tasks await
CanFetch(s) == mPc[s] = "start"
CanOtVerifyStart(s) ==
    /\ mPc[s] = "fetched"
    /\ mPc[~s] # "start"
    /\ Len(SeedShare(s, 1)) = Len(SeedShare(~s, 1))
CanOtVerifyComplete(s) ==
    /\ mPc[s] = "ot"
    /\ mPc[~s] \notin {"start", "fetched"}
    /\ Len(mSrv[~s].ot_sent) >= NumOtAlice(s)
CanB2aComplete(s) ==
    /\ mPc[s] = "b2a"
    /\ mPc[~s] \notin {"start", "fetched", "ot"}
    /\ Len(mSrv[~s].us_sent) >= Len(ClientsBob(s))
CanCorrVerifyOpenD(s) ==
    /\ mPc[s] = "sq1"
    /\ mPc[~s] \notin {"start", "fetched", "ot", "b2a"}
    /\ Len(mSrv[~s].db_b) >= NumSqAlice(s)
    /\ Len(mSrv[~s].db_a) >= NumSqBob(s)
CanCorrVerifyOpenW(s) ==
    /\ mPc[s] = "sq2"
    /\ mPc[~s] \notin {"start", "fetched", "ot", "b2a", "sq1"}
    /\ Len(mSrv[~s].wb_b) >= NumSqAlice(s)
    /\ Len(mSrv[~s].wb_a) >= NumSqBob(s)

\* ClientData::fetch: the phase-1 and phase-2 messages are gathered, the seed
\* shares derived; main then sends them to the peer
Fetch(s) ==
    /\ CanFetch(s)
    /\ mPc' = [mPc EXCEPT ![s] = "fetched"]
    /\ UNCHANGED <<nonM, mPool, mMsg, mFault, mSrv>>

\* mpc::ot_verify_bob(id, c_msg, peer, chi, gsize): the x_til, t_til sent
OtVerifyBob(m, chi) == XTilTTil(m.cot.ts, chi, m.inputs_1, m.cot.r_seed)
\* mpc::ot_verify_alice(id, cot, chi, peer, hasher) on the received til:
\* <<verified, hasher>>
OtVerifyAlice(m, chi, til) ==
    <<VerifyCot(m.cot.qs_seed, chi, m.cot.delta, til), AbsorbTil(NewHasher, til)>>
\* mpc::b2a_bob(id, c_msg, peer, hasher) on the received us: <<y1, hasher>>
B2aBob(m, us) ==
    <<BitCompAsOtReceiverBatch(RotCipher, m.inputs_1, SubSeq(m.cot.ts, 1, Gsize * NumBits), us),
      AbsorbVec(NewHasher, us)>>

\* the seeds are exchanged, chi sampled; ot_verify_bob sends x_til, t_til
\* for each client this server is Bob for
OtVerifyStart(s) ==
    /\ CanOtVerifyStart(s)
    /\ mSrv' = [mSrv EXCEPT ![s].ot_sent =
           [k \in 1 .. NumOtBob(s) |-> OtVerifyBob(BobMsg(s)[k], Chis(s)[2][k])]]
    /\ mPc' = [mPc EXCEPT ![s] = "ot"]
    /\ UNCHANGED <<nonM, mPool, mMsg, mFault>>

\* mpc::b2a_alice(id, gsize, inputs_0, cot, qs, peer): <<y0, us>>
B2aAlice(m) ==
    BitCompAsOtSenderBatch(RotCipher, InputsExpand(m.inputs_0, Gsize), m.cot.delta,
                           SubSeq(COTSeedExpand(m.cot.qs_seed, NumOts), 1, Gsize * NumBits))

\* ot_verify_alice completes for each client this server is Alice for, the
\* count is logged, b2a_alice sends us
OtVerifyComplete(s) ==
    /\ CanOtVerifyComplete(s)
    /\ LET res == [k \in 1 .. NumOtAlice(s) |->
                      OtVerifyAlice(AliceMsg(s)[k], Chis(s)[1][k], mSrv[~s].ot_sent[k])]
           ok == [k \in DOMAIN res |-> res[k][1]]
       IN mSrv' = [mSrv EXCEPT
              ![s].ot_ok = ok,
              ![s].h_ot_ba = [k \in DOMAIN res |-> res[k][2]],
              ![s].log = Append(@, <<"OT Verify Alice", Count(ok), Len(ClientsAlice(s))>>),
              ![s].us_sent = [k \in 1 .. NumOtAlice(s) |-> B2aAlice(AliceMsg(s)[k])[2]],
              ![s].alice_arith_shares =
                  [k \in 1 .. NumOtAlice(s) |-> B2aAlice(AliceMsg(s)[k])[1]]]
    /\ mPc' = [mPc EXCEPT ![s] = "b2a"]
    /\ UNCHANGED <<nonM, mPool, mMsg, mFault>>

\* corr_verify up to the first exchange for the k-th client of a sub-pool
CorrDb(sq, t_seed) ==
    VerifyPhase1(SubSeq(sq, 1, Gsize), SubSeq(sq, Gsize + 1, 2 * Gsize),
                 TOfSeed(t_seed, Gsize))
\* corr_verify between the exchanges
CorrWb(party, sq, t_seed, db, db_other) ==
    VerifyPhase2(party, SubSeq(sq, 1, Gsize), SubSeq(sq, Gsize + 1, 2 * Gsize),
                 TOfSeed(t_seed, Gsize), ZipAdd(CorrSize, db, db_other))
\* corr_verify after the second exchange: all input_len elements passed
CorrPassed(wb, wb_other) ==
    Cardinality({j \in DOMAIN wb : (wb[j] + wb_other[j]) % CorrSize = 0}) = Gsize

\* b2a_bob completes for each client this server is Bob for; the square
\* correlation batches are checked for their length and each corr_verify
\* sends its db
B2aComplete(s) ==
    /\ CanB2aComplete(s)
    /\ IF \A k \in DOMAIN SqcorrBob(s) : Len(SqcorrBob(s)[k]) = Gsize * 2
       THEN /\ mSrv' = [mSrv EXCEPT
                   ![s].h_b2a_ab = [k \in DOMAIN ClientsBob(s) |->
                                       B2aBob(BobMsg(s)[k], mSrv[~s].us_sent[k])[2]],
                   ![s].bob_arith_shares =
                       [k \in DOMAIN ClientsBob(s) |->
                           B2aBob(BobMsg(s)[k], mSrv[~s].us_sent[k])[1]],
                   ![s].db_a = [k \in 1 .. NumSqAlice(s) |->
                                   CorrDb(SqcorrAlice(s)[k], TSeeds(s)[1][k])],
                   ![s].db_b = [k \in 1 .. NumSqBob(s) |->
                                   CorrDb(SqcorrBob(s)[k], TSeeds(s)[2][k])]]
            /\ mPc' = [mPc EXCEPT ![s] = "sq1"]
       ELSE /\ mPc' = [mPc EXCEPT ![s] = "panic"]
            /\ UNCHANGED mSrv
    /\ UNCHANGED <<nonM, mPool, mMsg, mFault>>

\* corr_verify of every client: db_other absorbed, wb sent
CorrVerifyOpenD(s) ==
    /\ CanCorrVerifyOpenD(s)
    /\ mSrv' = [mSrv EXCEPT
           ![s].h_sqcorr_ba = [k \in 1 .. NumSqAlice(s) |->
                                  AbsorbVec(NewHasher, mSrv[~s].db_b[k])],
           ![s].h_sqcorr_ab = [k \in 1 .. NumSqBob(s) |->
                                  AbsorbVec(NewHasher, mSrv[~s].db_a[k])],
           ![s].wb_a = [k \in 1 .. NumSqAlice(s) |->
                           CorrWb(ALICE, SqcorrAlice(s)[k], TSeeds(s)[1][k],
                                  mSrv[s].db_a[k], mSrv[~s].db_b[k])],
           ![s].wb_b = [k \in 1 .. NumSqBob(s) |->
                           CorrWb(BOB, SqcorrBob(s)[k], TSeeds(s)[2][k],
                                  mSrv[s].db_b[k], mSrv[~s].db_a[k])]]
    /\ mPc' = [mPc EXCEPT ![s] = "sq2"]
    /\ UNCHANGED <<nonM, mPool, mMsg, mFault>>

\* the shares and the correlations a2s runs on, in merged order
ArithSharesOf(srv, s) == MergeMsg(s, srv.alice_arith_shares, srv.bob_arith_shares)
SqcorrMerged(s) == MergeMsg(s, SqcorrAlice(s), SqcorrBob(s))
NumA2s(srv, s) == Min(Len(SqcorrMerged(s)), Len(ArithSharesOf(srv, s)))

\* corr_verify of every client completes, the count is logged; a2s of every
\* client sends its eb
CorrVerifyOpenW(s) ==
    /\ CanCorrVerifyOpenW(s)
    /\ LET ok_a == [k \in 1 .. NumSqAlice(s) |->
                       CorrPassed(mSrv[s].wb_a[k], mSrv[~s].wb_b[k])]
           ok_b == [k \in 1 .. NumSqBob(s) |->
                       CorrPassed(mSrv[s].wb_b[k], mSrv[~s].wb_a[k])]
       IN mSrv' = [mSrv EXCEPT
              ![s].h_sqcorr_ba = [k \in 1 .. NumSqAlice(s) |->
                                     AbsorbVec(mSrv[s].h_sqcorr_ba[k], mSrv[~s].wb_b[k])],
              ![s].h_sqcorr_ab = [k \in 1 .. NumSqBob(s) |->
                                     AbsorbVec(mSrv[s].h_sqcorr_ab[k], mSrv[~s].wb_a[k])],
              ![s].sq_ok_a = ok_a,
              ![s].sq_ok_b = ok_b,
              ![s].log = Append(@, <<"SqCorr Verify", Count(ok_a) + Count(ok_b), Len(mPool)>>),
              ![s].e_sent = [k \in 1 .. NumA2s(mSrv[s], s) |->
                                [j \in DOMAIN ArithSharesOf(mSrv[s], s)[k] |->
                                    A2sFirst(ArithSharesOf(mSrv[s], s)[k][j],
                                             Cut(SqcorrMerged(s)[k][j]))]]]
    /\ mPc' = [mPc EXCEPT ![s] = "a2s"]
    /\ UNCHANGED <<nonM, mPool, mMsg, mFault>>

\* the number of digests of actual that equal the expected ones
NumVerified(expected, actual) ==
    Cardinality({k \in 1 .. Min(Len(expected), Len(actual)) : expected[k] = Digest(actual[k])})

CanA2sComplete(s) ==
    /\ mPc[s] = "a2s"
    /\ mPc[~s] \in {"a2s", "done", "panic"}
    /\ Len(mSrv[~s].e_sent) >= NumA2s(mSrv[s], s)
    /\ \A k \in 1 .. NumA2s(mSrv[s], s) : Len(mSrv[~s].e_sent[k]) = Len(mSrv[s].e_sent[k])

\* a2s of every client completes; the hash verification compares the
\* digests, with its assertions on the numbers of hashers
A2sComplete(s) ==
    /\ CanA2sComplete(s)
    /\ LET n == NumA2s(mSrv[s], s)
           h_a2s == [k \in 1 .. n |-> AbsorbVec(NewHasher, mSrv[~s].e_sent[k])]
           x_sq == [k \in 1 .. n |->
                       LET e == ZipAdd(ArithSize, mSrv[s].e_sent[k], mSrv[~s].e_sent[k])
                       IN [j \in DOMAIN e |->
                              A2sSecond(PartyOf(s), e[j], ArithSharesOf(mSrv[s], s)[k][j],
                                        Cut(SqcorrMerged(s)[k][j]))]]
           log1 == <<<<"B2A Hash AB",
                       NumVerified([k \in DOMAIN BobMsg(s) |-> BobMsg(s)[k].hash_b2a_ab],
                                   mSrv[s].h_b2a_ab), Len(ClientsBob(s))>>,
                     <<"A2S Hash", NumVerified(HashA2s(s), h_a2s), Len(mPool)>>,
                     <<"OT Verify Hash",
                       NumVerified([k \in DOMAIN AliceMsg(s) |-> AliceMsg(s)[k].hash_ot_ba],
                                   mSrv[s].h_ot_ba), Len(ClientsAlice(s))>>>>
           log2 == <<<<"SqCorr Verify Hash",
                       NumVerified([k \in DOMAIN AliceMsg(s) |-> AliceMsg(s)[k].hash_sqcorr_ba]
                                       \o [k \in DOMAIN BobMsg(s) |-> BobMsg(s)[k].hash_sqcorr_ab],
                                   mSrv[s].h_sqcorr_ba \o mSrv[s].h_sqcorr_ab),
                       Len(mPool)>>>>
       IN IF Len(ClientsBob(s)) # Len(mSrv[s].h_b2a_ab)
          THEN /\ mSrv' = [mSrv EXCEPT ![s].h_a2s = h_a2s, ![s].x_sq = x_sq]
               /\ mPc' = [mPc EXCEPT ![s] = "panic"]
          ELSE IF \/ Len(ClientsAlice(s)) # Len(mSrv[s].h_sqcorr_ba)
                  \/ Len(ClientsBob(s)) # Len(mSrv[s].h_sqcorr_ab)
          THEN /\ mSrv' = [mSrv EXCEPT ![s].h_a2s = h_a2s, ![s].x_sq = x_sq,
                                       ![s].log = @ \o log1]
               /\ mPc' = [mPc EXCEPT ![s] = "panic"]
          ELSE /\ mSrv' = [mSrv EXCEPT ![s].h_a2s = h_a2s, ![s].x_sq = x_sq,
                                       ![s].log = @ \o log1 \o log2]
               /\ mPc' = [mPc EXCEPT ![s] = "done"]
    /\ UNCHANGED <<nonM, mPool, mMsg, mFault>>

\* what a client that deviates from prepare_message changes in its message
\* to its Bob: a block of the COT strings, a c share of a correlation, the
\* digest of the B2A transcript, or the number of correlation shares
FaultKinds == {"ot", "sqcorr", "hash", "len"}
Corrupted(m, fault) ==
    IF fault = "ot" THEN [m EXCEPT !.cot.ts[1] = Xor(@, 1)]
    ELSE IF fault = "sqcorr" THEN [m EXCEPT !.square_corr.c[1] = FlipBitOf(@, 0)]
    ELSE IF fault = "hash" THEN [m EXCEPT !.hash_b2a_ab = (@ + 1) % HashSize]
    ELSE [m EXCEPT !.square_corr.c = SubSeq(@, 1, Len(@) - 1)]

\* client u sends a corrupted message to its Bob
CorruptClient(u, fault) ==
    /\ \A s \in BOOLEAN : mPc[s] = "start"
    /\ u \in DOMAIN mFault
    /\ mFault[u] = "none"
    /\ mFault' = [mFault EXCEPT ![u] = fault]
    /\ mMsg' = [mMsg EXCEPT ![u].bob = Corrupted(@, fault)]
    /\ UNCHANGED <<nonM, mPool, mPc, mSrv>>

MainNext ==
    \/ \E u \in 0 .. MaxPoolUid, fault \in FaultKinds : CorruptClient(u, fault)
    \/ \E s \in BOOLEAN : Fetch(s)
    \/ \E s \in BOOLEAN : OtVerifyStart(s)
    \/ \E s \in BOOLEAN : OtVerifyComplete(s)
    \/ \E s \in BOOLEAN : B2aComplete(s)
    \/ \E s \in BOOLEAN : CorrVerifyOpenD(s)
    \/ \E s \in BOOLEAN : CorrVerifyOpenW(s)
    \/ \E s \in BOOLEAN : A2sComplete(s)

\* the input of client u and the seed of its rng in the run of seed r
ClientSeed(r, u) == r + u
ClientInput(r, u) == [n \in 1 .. Gsize |-> Rand(2 ^ NumBits, ClientSeed(r, u), 0)]

\* the clients of the pool have sent both messages of prepare_message; the
\* two servers start main_with_option
MainInit ==
    /\ TransportIdle
    /\ SplitIdle
    /\ CotIdle
    /\ PInit([c \in Clients |-> 0])
    /\ RestIdle
    /\ B2aIdle
    /\ CorrIdle
    /\ A2sIdle
    /\ \E S \in SUBSET (0 .. MaxPoolUid), r \in 0 .. (NumRunSeeds - 1) :
          /\ Cardinality(S) <= NumPoolClients
          /\ MInit(AscendingSeq(S),
                   [u \in S |-> PrepareMessage(ClientInput(r, u), ClientSeed(r, u))])

SpecMain == MainInit /\ [][MainNext]_vars

\* the server with is_alice = s has no task to run: it has ended, or every
\* task it has awaits a message of the peer that has not arrived
Blocked(s) ==
    ~(\/ CanFetch(s)
      \/ CanOtVerifyStart(s)
      \/ CanOtVerifyComplete(s)
      \/ CanB2aComplete(s)
      \/ CanCorrVerifyOpenD(s)
      \/ CanCorrVerifyOpenW(s)
      \/ CanA2sComplete(s))
\* neither server will take another step
RunEnded == \A s \in BOOLEAN : Blocked(s)

\* no client deviated from prepare_message
HonestRun == \A u \in DOMAIN mFault : mFault[u] = "none"
\* the server has absorbed both messages of every corr_verify
SqcorrAbsorbed(s) == mPc[s] \in {"a2s", "done", "panic"}
\* the checks a server reports in a complete run
Checks ==
    <<"OT Verify Alice", "SqCorr Verify", "B2A Hash AB", "A2S Hash", "OT Verify Hash",
      "SqCorr Verify Hash">>
Reported(s) ==
    /\ mPc[s] = "done"
    /\ Len(mSrv[s].log) = Len(Checks)
    /\ \A k \in DOMAIN Checks : mSrv[s].log[k][1] = Checks[k]

\* C17: in a run where the clients and both servers are honest, for every
\* client and every hashed step (OT verify, B2A, square-correlation verify,
\* A2S) the digest of what a server absorbed from its peer equals the digest
\* the client supplied, and a server that ends the run has such a digest for
\* every one of its clients.
C17_HonestDigestsMatch ==
    HonestRun =>
        \A s \in BOOLEAN :
            /\ \A k \in DOMAIN mSrv[s].h_ot_ba :
                   Digest(mSrv[s].h_ot_ba[k]) = AliceMsg(s)[k].hash_ot_ba
            /\ \A k \in DOMAIN mSrv[s].h_b2a_ab :
                   Digest(mSrv[s].h_b2a_ab[k]) = BobMsg(s)[k].hash_b2a_ab
            /\ SqcorrAbsorbed(s) =>
                   /\ \A k \in DOMAIN mSrv[s].h_sqcorr_ba :
                          Digest(mSrv[s].h_sqcorr_ba[k]) = AliceMsg(s)[k].hash_sqcorr_ba
                   /\ \A k \in DOMAIN mSrv[s].h_sqcorr_ab :
                          Digest(mSrv[s].h_sqcorr_ab[k]) = BobMsg(s)[k].hash_sqcorr_ab
            /\ \A k \in DOMAIN mSrv[s].h_a2s :
                   Digest(mSrv[s].h_a2s[k]) = HashA2s(s)[k]
            /\ mPc[s] = "done" =>
                   /\ Len(mSrv[s].h_ot_ba) = Len(ClientsAlice(s))
                   /\ Len(mSrv[s].h_b2a_ab) = Len(ClientsBob(s))
                   /\ Len(mSrv[s].h_sqcorr_ba) = Len(ClientsAlice(s))
                   /\ Len(mSrv[s].h_sqcorr_ab) = Len(ClientsBob(s))
                   /\ Len(mSrv[s].h_a2s) = Len(mPool)

\* the clients whose OT verify or square-correlation verify failed at s
FailedClients(s) ==
    {ClientsAlice(s)[k] : k \in {j \in DOMAIN mSrv[s].ot_ok : ~mSrv[s].ot_ok[j]}}
        \cup {ClientsAlice(s)[k] : k \in {j \in DOMAIN mSrv[s].sq_ok_a : ~mSrv[s].sq_ok_a[j]}}
        \cup {ClientsBob(s)[k] : k \in {j \in DOMAIN mSrv[s].sq_ok_b : ~mSrv[s].sq_ok_b[j]}}

\* C18: a per-client verification failure never aborts the server: once a
\* verification of some client has failed at a server, the run does not end
\* before that server has run every later phase and reported the number of
\* passed verifications of each check.
C18_FailureNeverAborts ==
    \A s \in BOOLEAN : (FailedClients(s) # {} /\ RunEnded) => Reported(s)

\* the clients whose shares a server has run a2s on
A2sClients(s) ==
    LET merged == MergeMsg(s, ClientsAlice(s), ClientsBob(s))
    IN {merged[k] : k \in 1 .. Min(Len(merged), Len(mSrv[s].e_sent))}

\* C19: when a client's verification fails the client's contribution is
\* excluded: no share derived from that client's input is used in a later
\* phase (the a2s of that client is not run) or in the server's output.
C19_FailedClientExcluded ==
    \A s \in BOOLEAN : A2sClients(s) \cap FailedClients(s) = {}

\* ------------------------------------------------------------------------
\* The server-to-server link after a socket error
\* ------------------------------------------------------------------------
\* a socket of the peer link has failed at endpoint e: read_one_message
\* returned Err to a read loop, or a write or flush failed in a write worker
PeerLinkError(e) ==
    /\ kind = "mpc"
    /\ \E s \in Sockets : ~ralive[e][s] \/ wpc[e][s] = "dead"

\* C20: a socket I/O error on the server-to-server link, on read or on
\* write and on any of the pooled sockets, is fatal to the run: after it the
\* server receives no further message of the protocol and completes no
\* further send, and it is never left waiting for a message with no step
\* left to take.
C20_PeerLinkErrorIsFatal ==
    /\ [][\A e \in Ends :
             PeerLinkError(e) =>
                 /\ got'[e] = got[e]
                 /\ \A i \in Ids : sendSt'[e][i] = "done" => sendSt[e][i] = "done"]_vars
    /\ [](\A e \in Ends :
             (PeerLinkError(e) /\ ~ENABLED FaultWorkerNext)
                 => \A i \in Ids, c \in Slots : subSt[e][i][c] # "waiting")

\* ------------------------------------------------------------------------
\* ClientsPool: a client link that fails
\* ------------------------------------------------------------------------
\* bytes that are not a serialized message of the type the gather asks for
MalformedFrame(c) ==
    [id |-> COMMON_MESSAGE_ID_START, data |-> 0 - PayloadOfClient(c)]

\* the client goes away before it sent its message: its socket is closed
ClientDisconnect(c) ==
    /\ cst[c] = "connected"
    /\ cst' = [cst EXCEPT ![c] = "closed"]
    /\ UNCHANGED <<nonP, uid, cwire, backlog, accepted, connUid, psub, pgot,
                   psubChan, ppendMsg, ppendSub, poolSt, pool, gathered>>

\* the client sends bytes under SendId::FIRST that do not deserialize
ClientSendMalformed(c) ==
    /\ cst[c] = "connected"
    /\ cst' = [cst EXCEPT ![c] = "sent"]
    /\ cwire' = [cwire EXCEPT ![c] = Append(@, MalformedFrame(c))]
    /\ UNCHANGED <<nonP, uid, backlog, accepted, connUid, psub, pgot, psubChan,
                   ppendMsg, ppendSub, poolSt, pool, gathered>>

\* read loop of connection c: read_one_message returns Err on the closed
\* socket; the loop traces the error and breaks. pending_subscribe is
\* shared with the subscribe loop and keeps its senders.
PoolReadLoopExit(c) ==
    /\ InSeq(c, accepted)
    /\ palive[c]
    /\ cst[c] = "closed"
    /\ cwire[c] = <<>>
    /\ palive' = [palive EXCEPT ![c] = FALSE]
    /\ UNCHANGED <<nonPH, pvars, subLoop, io, ivars, uvars>>

\* ClientsPool::subscribe_and_get: the task of a client unwraps the result
\* of the deserialization and panics; the gather awaits the handles in pool
\* order and unwraps the JoinError of that task
GatherUnwrap ==
    /\ poolSt = "gathering"
    /\ \E k \in DOMAIN pool :
          /\ \A j \in 1 .. k : psub[pool[j]][COMMON_MESSAGE_ID_START] = "ready"
          /\ ~Deserializes(pgot[pool[k]][COMMON_MESSAGE_ID_START][1])
    /\ poolSt' = "panicked"
    /\ UNCHANGED <<nonP, uid, cst, cwire, backlog, accepted, connUid, psub, pgot,
                   psubChan, ppendMsg, ppendSub, pool, gathered>>

PoolFaultNext ==
    \/ PoolNext
    \/ \E c \in Clients : ClientDisconnect(c)
    \/ \E c \in Clients : ClientSendMalformed(c)
    \/ \E c \in Clients : PoolReadLoopExit(c)
    \/ GatherUnwrap

\* the clients register with the ClientIDs 0, 1, ...
PoolFaultInit ==
    /\ TransportIdle
    /\ SplitIdle
    /\ CotIdle
    /\ ArithIdle
    /\ PInit([c \in Clients |-> c - 1])

SpecPoolFault == PoolFaultInit /\ [][PoolFaultNext]_vars

\* the link of client c has failed: its socket was closed and its read loop
\* has ended, or the bytes it sent do not deserialize
LinkFailed(c) ==
    \/ cst[c] = "closed" /\ ~palive[c]
    \/ COMMON_MESSAGE_ID_START \in DOMAIN ppendMsg[c]
           /\ ~Deserializes(ppendMsg[c][COMMON_MESSAGE_ID_START])
    \/ pgot[c][COMMON_MESSAGE_ID_START] # <<>>
           /\ ~Deserializes(pgot[c][COMMON_MESSAGE_ID_START][1])

\* C21: a socket or deserialization error on one client link marks only
\* that client as failed: the server neither aborts (the gather over a built
\* pool never panics) nor blocks forever because of the failed client (the
\* gather is never left waiting with no step of any loop left to take).
C21_ClientLinkErrorIsLocal ==
    (\E c \in Clients : LinkFailed(c)) =>
        /\ pool # <<>> => poolSt # "panicked"
        /\ ~(poolSt = "gathering" /\ ~ENABLED PoolFaultNext)

\* ------------------------------------------------------------------------
\* Transport: the two maps of the pending buffer
\* ------------------------------------------------------------------------
\* C22: on every connection, in every reachable state, no message id is in
\* both pending_message (arrived, not yet subscribed) and pending_subscribe
\* (subscribed, not yet arrived), under any interleaving of the read loops
\* and the subscribers, duplicate subscriptions included.
C22_PendingMapsDisjoint ==
    \A e \in Ends : (DOMAIN pendMsg[e]) \cap (DOMAIN pendSub[e]) = {}

\* a frame waits for its subscriber while a subscriber waits for its frame
C22_Witness ==
    \E e \in Ends : DOMAIN pendMsg[e] # {} /\ DOMAIN pendSub[e] # {}

\* ------------------------------------------------------------------------
\* Transport: the write buffer of the server-to-server connection
\* ------------------------------------------------------------------------
\* C25: in every reachable state of the write buffer of an MpcConnection,
\* pending_write_task and pending_idle_socket are not both non-empty: a task
\* is queued only when no worker is parked, and a worker parks only when no
\* task is queued.
C25_QueueOrIdleEmpty ==
    /\ [](kind = "mpc" => \A e \in Ends : wq[e] = <<>> \/ idleQ[e] = <<>>)
    /\ [][kind = "mpc" =>
            \A e \in Ends :
                /\ Len(wq'[e]) > Len(wq[e]) => idleQ[e] = <<>>
                /\ Len(idleQ'[e]) > Len(idleQ[e]) => wq[e] = <<>>]_vars

\* a worker is parked after a task was queued, taken and written
C25_Witness ==
    /\ kind = "mpc"
    /\ \E e \in Ends :
          /\ idleQ[e] # <<>>
          /\ \E i \in Ids : sendSt[e][i] = "done" /\ Buffered(e, i)

\* ------------------------------------------------------------------------
\* Transport: the order of dispatch over the write workers
\* ------------------------------------------------------------------------
\* the application calls send with ascending ids, one call after the other:
\* send(j) has returned before send(i) is called exactly when j < i
SendInOrder(e, i) ==
    /\ \A j \in Ids : j < i => sendSt[e][j] # "none"
    /\ Send(e, i)

DispatchNext ==
    \/ \E e \in Ends, i \in Ids : SendInOrder(e, i)
    \/ \E e \in Ends, i \in Ids : Subscribe(e, i)
    \/ WorkerNext

DispatchInit == PoolIdle /\ \E k \in Kinds, e0 \in Ends : TInit(k, e0)

SpecDispatch == DispatchInit /\ [][DispatchNext]_vars

\* send(i) was called at e and its task has left pending_write_task: it was
\* popped by a worker or handed to the one-shot of a parked worker
Assigned(e, i) == sendSt[e][i] # "none" /\ i \notin FrameIds(wq[e])

\* a worker holds the task of send(i) and has gone on to write it
StartedWriting(e, i) ==
    /\ Assigned(e, i)
    /\ \A s \in Sockets : i \notin FrameIds(handoff[e][s])

\* C23 (as claimed): dispatch over the write workers of an MpcConnection is
\* first-come-first-served: if send(m1) returns before send(m2) is called,
\* some worker starts writing m1 no later than any worker starts writing m2
\* (so a parked worker handed m1 resumes before the one handed m2).
C23_WritesStartInSendOrder ==
    kind = "mpc" =>
        \A e \in Ends, i \in Ids, j \in Ids :
            (j < i /\ StartedWriting(e, i)) => StartedWriting(e, j)

\* C23 (amended): the assignment of tasks to workers is first-come-first-
\* served: if send(m1) returns before send(m2) is called, m1 is popped from
\* the queue or handed to a parked worker no later than m2; a task is handed
\* to the worker at the head of pending_idle_socket and a worker parks at
\* its tail, so parked workers are handed tasks in the order in which they
\* parked. (The worker handed m1 may resume after the worker handed m2.)
C23_AssignedInSendOrder ==
    /\ [](kind = "mpc" =>
            \A e \in Ends, i \in Ids, j \in Ids :
                (j < i /\ Assigned(e, i)) => Assigned(e, j))
    /\ [][kind = "mpc" =>
            \A e \in Ends :
                /\ \A s \in Sockets :
                      (handoff'[e][s] # <<>> /\ handoff[e][s] = <<>>) =>
                          /\ idleQ[e] # <<>>
                          /\ s = Head(idleQ[e])
                          /\ idleQ'[e] = Tail(idleQ[e])
                /\ Len(idleQ'[e]) > Len(idleQ[e]) =>
                      \E s \in Sockets : idleQ'[e] = Append(idleQ[e], s)]_vars

\* two parked workers were handed two messages and the worker handed the
\* later one has resumed while the earlier message still waits in its one-shot
C23_Witness ==
    /\ kind = "mpc"
    /\ \E e \in Ends, i \in Ids, j \in Ids, s \in Sockets :
          /\ j < i
          /\ j \in FrameIds(handoff[e][s])
          /\ StartedWriting(e, i)

\* ------------------------------------------------------------------------
\* Transport: every message is written once
\* ------------------------------------------------------------------------
\* the runtime schedules every background task that can run
SpecDispatchFair ==
    /\ DispatchInit
    /\ [][DispatchNext]_vars
    /\ WF_vars(WorkerNext)

\* the number of frames with id i in q
CountIn(q, i) == Cardinality({n \in DOMAIN q : q[n].id = i})

RECURSIVE SumOver(_, _)
SumOver(S, f) ==
    IF S = {} THEN 0
    ELSE LET x == CHOOSE y \in S : TRUE IN f[x] + SumOver(S \ {x}, f)

\* the copies of the message of send(i) at e that worker s holds: in its
\* one-shot, in its hands before the write, in its BufWriter, on its socket
CopiesAt(e, s, i) ==
    CountIn(handoff[e][s], i)
    + (IF wpc[e][s] = "write" THEN CountIn(cur[e][s], i) ELSE 0)
    + CountIn(wbuf[e][s], i)
    + CountIn(wire[e][s], i)

\* the copies of the message of send(i) at e anywhere between the call of
\* send and the subscriber at the peer
Copies(e, i) ==
    CountIn(wq[e], i)
    + SumOver(Sockets, [s \in Sockets |-> CopiesAt(e, s, i)])
    + (IF i \in DOMAIN pendMsg[Peer(e)] THEN 1 ELSE 0)
    + (IF got[Peer(e)][i][1] # <<>> THEN 1 ELSE 0)

\* the frame of send(i) at e has been written to a socket
OnSocket(e, i) ==
    \/ \E s \in Sockets : i \in FrameIds(wire[e][s])
    \/ i \in DOMAIN pendMsg[Peer(e)]
    \/ got[Peer(e)][i][1] # <<>>

\* C24: every message passed to the server-to-server send is eventually
\* written, as one whole frame, to exactly one socket of the pool and
\* exactly once: at every moment there is exactly one copy of it between
\* the send call and the peer (none lost, none written twice), every frame
\* on a socket is the whole frame of its message, and the frame eventually
\* reaches a socket.
C24_WrittenExactlyOnce ==
    /\ [](kind = "mpc" =>
            \A i \in Ids :
                /\ sendSt[sender][i] # "none" => Copies(sender, i) = 1
                /\ sendSt[sender][i] = "none" => Copies(sender, i) = 0
                /\ \A s \in Sockets : \A n \in DOMAIN wire[sender][s] :
                      wire[sender][s][n] = Frame(sender, wire[sender][s][n].id))
    /\ \A i \in Ids :
          (kind = "mpc" /\ sendSt[sender][i] # "none") ~> OnSocket(sender, i)

\* every message was sent, has reached the peer and was completed, and every
\* worker of the pool is parked again
C24_Witness ==
    /\ kind = "mpc"
    /\ \A i \in Ids : sendSt[sender][i] = "done" /\ OnSocket(sender, i)
    /\ \A e \in Ends, s \in Sockets : wire[e][s] = <<>>
    /\ \A s \in Sockets : s \in {idleQ[sender][n] : n \in DOMAIN idleQ[sender]}

\* ------------------------------------------------------------------------
\* Transport: when a write worker flushes
\* ------------------------------------------------------------------------
\* C26: a write worker of an MpcConnection flushes its socket every time it
\* finds no queued task, before it parks, and never flushes between two
\* tasks it takes consecutively from the queue; so every frame it wrote is
\* flushed before it waits for further work: a waiting worker has an empty
\* write buffer, a worker goes to its flush only from the top of its loop
\* with the queue empty, and from there it parks through the flush
\* whenever its buffer holds a frame.
C26_FlushOnlyBeforeParking ==
    /\ [](kind = "mpc" =>
            \A e \in Ends, s \in Sockets :
                wpc[e][s] = "wait" => wbuf[e][s] = <<>>)
    /\ [][kind = "mpc" =>
            \A e \in Ends, s \in Sockets :
                /\ (wpc'[e][s] = "flush" /\ wpc[e][s] # "flush") =>
                      wpc[e][s] = "loop" /\ wq[e] = <<>>
                /\ (wpc[e][s] = "loop" /\ wpc'[e][s] = "write") =>
                      wq[e] # <<>> /\ wbuf'[e][s] = wbuf[e][s]
                /\ (wpc[e][s] = "loop" /\ wpc'[e][s] = "wait") =>
                      wq[e] = <<>> /\ wbuf[e][s] = <<>>]_vars

\* a worker has taken two tasks from the queue one after the other and
\* holds both frames in its write buffer, unflushed
C26_Witness ==
    /\ kind = "mpc"
    /\ \E e \in Ends, s \in Sockets : Len(wbuf[e][s]) = 2 /\ wpc[e][s] = "flush"

\* ------------------------------------------------------------------------
\* Transport: the background tasks of a closed socket
\* ------------------------------------------------------------------------
\* the writer of socket s at e waits for work: the tcp write loop in
\* write_receiver.recv(), the mpc worker on the one-shot it parked
WriterParked(e, s) ==
    \/ wpc[e][s] = "wait"
    \/ kind = "tcp" /\ wpc[e][s] = "loop" /\ wq[e] = <<>>

\* the writer of socket s at e has unwrapped the error of a write or flush,
\* or of the poisoned lock, and its task has panicked
WriterPanicked(e, s) == wpc[e][s] = "dead"

\* C27: each socket has one background reader and one background writer,
\* and after the socket is closed both eventually terminate cleanly: once
\* the socket is closed and no background step is left to take, its reader
\* is gone, and its writer is neither parked nor ended by a panic.
C27_LoopsEndCleanlyOnClose ==
    \A e \in Ends, s \in SocketsOf(kind) :
        (~open[s] /\ ~ENABLED FaultWorkerNext) =>
            /\ ~ralive[e][s]
            /\ ~WriterParked(e, s)
            /\ ~WriterPanicked(e, s)

\* ------------------------------------------------------------------------
\* Transport: a subscriber that abandons its wait
\* ------------------------------------------------------------------------
\* the future of subscribe_and_get is dropped while it awaits its one-shot:
\* the receiving end of the one-shot is dropped
Abandon(e, i) ==
    /\ subSt[e][i][1] \in {"queued", "waiting"}
    /\ subSt' = [subSt EXCEPT ![e][i][1] = "abandoned"]
    /\ UNCHANGED <<nonT, kind, sender, open, wside, got, subChan, pendMsg,
                   pendSub, rpoisoned, ralive>>

AbandonNext ==
    \/ \E e \in Ends, i \in Ids : Send(e, i)
    \/ \E e \in Ends, i \in Ids : Subscribe(e, i)
    \/ \E e \in Ends, i \in Ids : Abandon(e, i)
    \/ WorkerNext

AbandonInit == PoolIdle /\ \E k \in Kinds, e0 \in Ends : TInit(k, e0)

SpecAbandon == AbandonInit /\ [][AbandonNext]_vars

\* some subscriber of the connection of e has abandoned its wait
SomeAbandoned(e) == \E j \in Ids : subSt[e][j][1] = "abandoned"

\* C28: a subscriber that abandons its wait affects only its own id: every
\* other subscription on the same connection, made before or after, is
\* still registered (its call does not fail) and is still resolved with its
\* matching message when that message arrives (it is resolved once its
\* message was sent and no background step is left to take).
C28_AbandonAffectsOnlyItsId ==
    \A i \in Ids :
        LET e == Peer(sender)
            st == subSt[e][i][1] IN
        SomeAbandoned(e) =>
            /\ st \in {"none", "queued", "waiting", "ready", "abandoned"}
            /\ st = "ready" => got[e][i][1] = <<PayloadOf(sender, i)>>
            /\ (~ENABLED WorkerNext /\ st \notin {"none", "abandoned"}
                   /\ sendSt[sender][i] # "none") => st = "ready"

\* ------------------------------------------------------------------------
\* The servers: the message ids of the server-to-server steps
\* ------------------------------------------------------------------------
\* IdGen::new
IdGenNew ==
    [next_send_id |-> COMMON_MESSAGE_ID_START,
     next_recv_id |-> COMMON_MESSAGE_ID_START,
     next_send_id_bound |-> U64_MAX,
     next_recv_id_bound |-> U64_MAX]

\* the generator after ns calls of next_send_id and nr calls of next_recv_id
IdGenAfter_Stuck(g, ns, nr) == g
IdGenAfter(g, ns, nr) ==
    [g EXCEPT !.next_send_id = @ + ns, !.next_recv_id = @ + nr]

\* the ids n consecutive calls of next_send_id, next_recv_id and
\* next_exchange_id return
NextSendIds(g, n) == [k \in 1 .. n |-> g.next_send_id + (k - 1)]
NextRecvIds(g, n) == [k \in 1 .. n |-> g.next_recv_id + (k - 1)]
NextExchangeIds(g, n) ==
    [k \in 1 .. n |-> [send_id |-> g.next_send_id + (k - 1),
                       recv_id |-> g.next_recv_id + (k - 1)]]

\* IdPool::build(alice_pool_size, bob_pool_size)
IdPoolBuild(alice_pool_size, bob_pool_size) ==
    LET both == alice_pool_size + bob_pool_size
        g0 == IdGenNew
        seeds == NextExchangeIds(g0, 2)
        g1 == IdGenAfter(g0, 2, 2)
        g2 == IdGenAfter(g1, 0, alice_pool_size)
        g3 == IdGenAfter(g2, bob_pool_size, 0)
        g4 == IdGenAfter(g3, alice_pool_size, 0)
        g5 == IdGenAfter(g4, 0, bob_pool_size)
        sq == NextExchangeIds(g5, 2 * both)
        g6 == IdGenAfter(g5, 2 * both, 2 * both)
    IN [exchange_chi_seed |-> seeds[1],
        exchange_t_seed |-> seeds[2],
        otverify_a |-> NextRecvIds(g1, alice_pool_size),
        otverify_b |-> NextSendIds(g2, bob_pool_size),
        b2a_a |-> NextSendIds(g3, alice_pool_size),
        b2a_b |-> NextRecvIds(g4, bob_pool_size),
        sqcorr |-> [j \in 1 .. both |-> <<sq[2 * j - 1], sq[2 * j]>>],
        a2s |-> NextExchangeIds(g6, both)]

\* one use of a message id by a server
IdUse(dir, id, client, step) == [dir |-> dir, id |-> id, client |-> client, step |-> step]
\* exchange_message(id, ..): send under send_id, subscribe under recv_id
ExchangeUse(x, client, step) ==
    {IdUse("send", x.send_id, client, step), IdUse("recv", x.recv_id, client, step)}

\* the sub-pools of server s and the per-client vectors of main
IdsAlice(s) == Split(iPool, s)[1]
IdsBob(s) == Split(iPool, s)[2]
\* chi_seed and t_seed have one entry per client; split_iter deals them out
SeedSlots(s) == SplitIter(s, [j \in 1 .. Len(iPool) |-> j])
\* ot_ba_handles and qs_per_client: zip of po2_msgs_alice, otverify_a, chis_a
IdsNumOtAlice(s) == Min(Len(IdsAlice(s)), Len(SeedSlots(s)[1]))
IdsNumOtBob(s) == Min(Len(IdsBob(s)), Len(SeedSlots(s)[2]))

\* the ids the tasks of one step of server s use
StepUses(s, step) ==
    LET ids == iIds[s]
        alice == IdsAlice(s)
        bob == IdsBob(s)
        sqids == SplitIter(s, ids.sqcorr)
        num_sq_a == Min(Min(Len(alice), Len(sqids[1])), Len(SeedSlots(s)[1]))
        num_sq_b == Min(Min(Len(bob), Len(sqids[2])), Len(SeedSlots(s)[2]))
        sqcorr == MergeMsg(s, alice, bob)
        arith == MergeMsg(s, SubSeq(alice, 1, IdsNumOtAlice(s)), bob)
        num_a2s == Min(Min(Len(sqcorr), Len(arith)), Len(ids.a2s))
    IN CASE step = "seeds" ->
              \* one message carries the seeds of all clients: client -1
              ExchangeUse(ids.exchange_chi_seed, 0 - 1, "chi_seed")
              \cup ExchangeUse(ids.exchange_t_seed, 0 - 1, "t_seed")
         [] step = "ot" ->
              {IdUse("recv", ids.otverify_a[k], alice[k], "ot") :
                   k \in 1 .. IdsNumOtAlice(s)}
              \cup {IdUse("send", ids.otverify_b[k], bob[k], "ot") :
                        k \in 1 .. IdsNumOtBob(s)}
         [] step = "b2a" ->
              {IdUse("recv", ids.b2a_b[k], bob[k], "b2a") : k \in 1 .. Len(bob)}
              \cup {IdUse("send", ids.b2a_a[k], alice[k], "b2a") :
                        k \in 1 .. IdsNumOtAlice(s)}
         [] step = "sqcorr" ->
              UNION {ExchangeUse(sqids[1][k][1], alice[k], "sq1")
                     \cup ExchangeUse(sqids[1][k][2], alice[k], "sq2") :
                         k \in 1 .. num_sq_a}
              \cup UNION {ExchangeUse(sqids[2][k][1], bob[k], "sq1")
                          \cup ExchangeUse(sqids[2][k][2], bob[k], "sq2") :
                              k \in 1 .. num_sq_b}
         [] step = "a2s" ->
              UNION {ExchangeUse(ids.a2s[j], sqcorr[j], "a2s") : j \in 1 .. num_a2s}

\* the steps of main_with_option in program order
StepAfter(pc) ==
    CASE pc = "built" -> "seeds"
      [] pc = "seeds" -> "ot"
      [] pc = "ot" -> "b2a"
      [] pc = "b2a" -> "sqcorr"
      [] pc = "sqcorr" -> "a2s"

\* main_with_option: IdPool::build over the sizes of the two sub-pools
IdsBuild(s) ==
    /\ iPc[s] = "start"
    /\ iIds' = [iIds EXCEPT ![s] = IdPoolBuild(Len(IdsAlice(s)), Len(IdsBob(s)))]
    /\ iPc' = [iPc EXCEPT ![s] = "built"]
    /\ UNCHANGED <<nonI, iPool, iUse>>

\* main_with_option spawns the tasks of its next step, each with its id
IdsStep(s) ==
    /\ iPc[s] \in {"built", "seeds", "ot", "b2a", "sqcorr"}
    /\ iUse' = [iUse EXCEPT ![s] = @ \cup StepUses(s, StepAfter(iPc[s]))]
    /\ iPc' = [iPc EXCEPT ![s] = StepAfter(iPc[s])]
    /\ UNCHANGED <<nonI, iPool, iIds>>

IdsNext ==
    \/ \E s \in BOOLEAN : IdsBuild(s)
    \/ \E s \in BOOLEAN : IdsStep(s)

\* a pool as ClientsPool::new builds it: sorted, without duplicates
IdsInit ==
    /\ TransportIdle
    /\ SplitIdle
    /\ CotIdle
    /\ PInit([c \in Clients |-> 0])
    /\ B2aIdle
    /\ CorrIdle
    /\ A2sIdle
    /\ MainIdle
    /\ LoopsRunning
    /\ UtilIdle
    /\ \E S \in SUBSET (0 .. MaxPoolUid) : IInit(AscendingSeq(S))

SpecIds == IdsInit /\ [][IdsNext]_vars

\* the steps that run once per client
ClientSteps == {"ot", "b2a", "sq1", "sq2", "a2s"}
IdsClients == {iPool[k] : k \in DOMAIN iPool}
Opposite(dir) == IF dir = "send" THEN "recv" ELSE "send"

\* the ClientIDs of the pool alternate in parity from an even one, as the
\* ids 0, 1, 2, ... the client driver registers do
Alternating == \A k \in DOMAIN iPool : iPool[k] % 2 = (k - 1) % 2
IdsDone == \A s \in BOOLEAN : iPc[s] = "a2s"

\* C29: for every client and every server-to-server step (seed exchange,
\* OT verify, B2A, both square-correlation rounds, A2S) the send id one
\* server uses for that client and step equals the recv id under which the
\* other server subscribes for the same client and step, and no id is used
\* for two different (client, step) pairs, for every number of clients: a
\* server uses no id twice in one direction; a send of one server and a
\* subscription of the other are for the same client and step exactly when
\* they use the same id; and with the clients 0, 1, ..., n - 1, odd n
\* included, every client has an id in every per-client step and every use
\* of an id has its counterpart at the peer.
C29_SendIdEqualsRecvId ==
    /\ \A s \in BOOLEAN : \A x \in iUse[s], y \in iUse[s] :
           (x.dir = y.dir /\ x.id = y.id) => x = y
    /\ \A s \in BOOLEAN : \A x \in iUse[s], y \in iUse[~s] :
           (x.dir = "send" /\ y.dir = "recv") =>
               ((x.client = y.client /\ x.step = y.step) <=> x.id = y.id)
    /\ (IdsDone /\ Alternating) =>
           /\ \A s \in BOOLEAN : \A x \in iUse[s] :
                 IdUse(Opposite(x.dir), x.id, x.client, x.step) \in iUse[~s]
           /\ \A u \in IdsClients, step \in ClientSteps :
                 \E s \in BOOLEAN : \E x \in iUse[s] :
                     x.dir = "send" /\ x.client = u /\ x.step = step

\* both servers have spawned every task for an odd number of clients, whose
\* two sub-pools differ in size
C29_Witness ==
    /\ IdsDone
    /\ Alternating
    /\ Len(iPool) >= 3
    /\ Len(IdsAlice(TRUE)) # Len(IdsBob(TRUE))
    /\ \A u \in IdsClients, step \in ClientSteps :
          \E x \in iUse[TRUE] : x.client = u /\ x.step = step

\* ------------------------------------------------------------------------
\* The servers: the challenge seeds of a client
\* ------------------------------------------------------------------------
\* Client::prepare_message: <<chi_seed, t_seed>> the client derives from
\* the Fiat-Shamir hashes of its two phase-1 messages
ClientChallengeSeeds(m) ==
    LET fs_a == BytesToSeedPairs(Digest(AbsorbPhase1A(m.alice)))
        fs_b == BytesToSeedPairs(Digest(AbsorbPhase1B(m.bob)))
    IN <<Xor(fs_a[1], fs_b[1]), Xor(fs_a[2], fs_b[2])>>

\* the seeds at position k of the sub-pool q of server s (1: alice, 2: bob)
\* are those of the k-th client of q
SeedsBelong(s, side, q) ==
    \A k \in DOMAIN q :
        LET own == ClientChallengeSeeds(mMsg[q[k]]) IN
        /\ k <= Len(TSeeds(s)[side]) => TSeeds(s)[side][k] = own[2]
        /\ k <= Len(Chis(s)[side]) => Chis(s)[side][k] = SampleChi(NumOts, own[1])

\* C30: for every client, the chi seed and the t seed both servers use
\* after exchanging and XOR-ing their Fiat-Shamir-derived seeds are equal
\* to each other and equal to the seeds the client derived from its two
\* phase-1 messages; the seed a server associates with position k of a
\* sub-pool belongs to the k-th client of that sub-pool.
C30_SeedsAreTheClients ==
    \A s \in BOOLEAN :
        mPc[s] \notin {"start", "fetched"} =>
            /\ ChiSeed(s) = ChiSeed(~s)
            /\ TSeed(s) = TSeed(~s)
            /\ SeedsBelong(s, 1, ClientsAlice(s))
            /\ SeedsBelong(s, 2, ClientsBob(s))

\* ------------------------------------------------------------------------
\* IdGen: a generator and the generators reserved from it
\* ------------------------------------------------------------------------
\* a + b in u64: <<>> where the build panics on the overflow, else the
\* wrapped sum
U64Add(a, b, oc) ==
    IF a + b > U64_MAX /\ oc THEN <<>> ELSE <<(a + b) % (U64_MAX + 1)>>

\* the outcome of a call on generator g: the generator after it, the ids it
\* returned, whether it panicked
Panics(g) == [gen |-> g, send |-> <<>>, recv |-> <<>>, panic |-> TRUE]

\* IdGen::next_send_id
NextSendId(g, oc) ==
    LET n == U64Add(g.next_send_id, 1, oc) IN
    IF g.next_send_id = g.next_send_id_bound \/ n = <<>> THEN Panics(g)
    ELSE [gen |-> [g EXCEPT !.next_send_id = n[1]],
          send |-> <<g.next_send_id>>, recv |-> <<>>, panic |-> FALSE]

\* IdGen::next_recv_id
NextRecvId(g, oc) ==
    LET n == U64Add(g.next_recv_id, 1, oc) IN
    IF g.next_recv_id = g.next_recv_id_bound \/ n = <<>> THEN Panics(g)
    ELSE [gen |-> [g EXCEPT !.next_recv_id = n[1]],
          send |-> <<>>, recv |-> <<g.next_recv_id>>, panic |-> FALSE]

\* IdGen::next_exchange_id: next_send_id, then next_recv_id
NextExchangeId(g, oc) ==
    LET a == NextSendId(g, oc)
        b == NextRecvId(a.gen, oc) IN
    IF a.panic THEN a
    ELSE [gen |-> b.gen, send |-> a.send, recv |-> b.recv, panic |-> b.panic]

\* IdGen::reserve_rounds(num_rounds): <<>> where an addition panics, else
\* <<the generator after the call, the reserved generator>>
ReserveRounds(g, num_rounds, oc) ==
    LET r == U64Add(g.next_recv_id, num_rounds, oc)
        t == U64Add(g.next_send_id, num_rounds, oc) IN
    IF r = <<>> \/ t = <<>> THEN <<>>
    ELSE <<[g EXCEPT !.next_recv_id = r[1], !.next_send_id = t[1]],
           [next_recv_id |-> g.next_recv_id,
            next_send_id |-> g.next_send_id,
            next_recv_id_bound |-> r[1],
            next_send_id_bound |-> t[1]]>>

IssuedBy(k, dir, ids) == [j \in DOMAIN ids |-> [gen |-> k, dir |-> dir, id |-> ids[j]]]

\* a call of next_send_id, next_recv_id or next_exchange_id on generator k
\* with the outcome r
GenCall(k, op, r) ==
    /\ Len(gIssued) + Len(r.send) + Len(r.recv) <= MaxIssued
    /\ idgen' = [idgen EXCEPT
                    !.gens[k] = r.gen,
                    !.issued = @ \o IssuedBy(k, "send", r.send)
                                 \o IssuedBy(k, "recv", r.recv),
                    !.ret = [op |-> op, gen |-> k, panic |-> r.panic]]
    /\ UNCHANGED <<nonU, po2, call>>

GenNextSendId(k) == GenCall(k, "next_send_id", NextSendId(gGens[k], overflow_checks))
GenNextRecvId(k) == GenCall(k, "next_recv_id", NextRecvId(gGens[k], overflow_checks))
GenNextExchangeId(k) ==
    GenCall(k, "next_exchange_id", NextExchangeId(gGens[k], overflow_checks))

\* a call of reserve_rounds(num_rounds) on generator k
GenReserveRounds(k, num_rounds) ==
    LET r == ReserveRounds(gGens[k], num_rounds, overflow_checks) IN
    /\ Len(gGens) < MaxGens
    /\ idgen' =
           IF r = <<>>
           THEN [idgen EXCEPT !.ret = [op |-> "reserve_rounds", gen |-> k,
                                       panic |-> TRUE]]
           ELSE [idgen EXCEPT
                    !.gens = Append([@ EXCEPT ![k] = r[1]], r[2]),
                    !.from = Append(@, [parent |-> k, num_rounds |-> num_rounds,
                                        send_lo |-> gGens[k].next_send_id,
                                        recv_lo |-> gGens[k].next_recv_id]),
                    !.ret = [op |-> "reserve_rounds", gen |-> k,
                             panic |-> FALSE]]
    /\ UNCHANGED <<nonU, po2, call>>

\* the values of num_rounds
Rounds == (0 .. MaxRounds) \cup {U64_MAX}

GenNext ==
    \/ \E k \in DOMAIN gGens : GenNextSendId(k)
    \/ \E k \in DOMAIN gGens : GenNextRecvId(k)
    \/ \E k \in DOMAIN gGens : GenNextExchangeId(k)
    \/ \E k \in DOMAIN gGens, num_rounds \in Rounds : GenReserveRounds(k, num_rounds)

\* everything but the generators is idle
CoreIdle ==
    /\ TransportIdle
    /\ SplitIdle
    /\ CotIdle
    /\ PInit([c \in Clients |-> 0])
    /\ B2aIdle
    /\ CorrIdle
    /\ A2sIdle
    /\ MainIdle
    /\ LoopsRunning
    /\ IdsIdle

GenInit == CoreIdle /\ Po2Idle /\ CallIdle /\ \E oc \in BOOLEAN : GInit(<<IdGenNew>>, oc)

SpecGen == GenInit /\ [][GenNext]_vars

\* the ids generator k has returned in direction dir
IdsOf(k, dir) ==
    {j \in DOMAIN gIssued : gIssued[j].gen = k /\ gIssued[j].dir = dir}

\* C31: message ids are never issued twice: after any sequence of
\* next_send_id, next_recv_id, next_exchange_id and reserve_rounds calls on
\* a generator and on every generator reserved from it (reserved from
\* reserved ones included), all send ids issued are pairwise distinct, all
\* recv ids issued are pairwise distinct, and none is the registration id 0.
C31_IdsNeverIssuedTwice ==
    /\ \A i \in DOMAIN gIssued : \A j \in DOMAIN gIssued :
           (i # j /\ gIssued[i].dir = gIssued[j].dir) => gIssued[i].id # gIssued[j].id
    /\ \A i \in DOMAIN gIssued : gIssued[i].id # REGISTER_MESSAGE_ID

\* the ids generator k returned in direction dir are at most n and lie in
\* lo .. lo + n - 1
WithinReserved(k, dir, lo, n) ==
    /\ Cardinality(IdsOf(k, dir)) <= n
    /\ \A j \in IdsOf(k, dir) : lo <= gIssued[j].id /\ gIssued[j].id < lo + n

\* a call of reserve_rounds on generator k has just returned
ReserveReturned(k) ==
    /\ Len(gGens') = Len(gGens) + 1
    /\ gFrom'[Len(gGens')].parent = k

\* C32: reserve_rounds(n) returns a generator that can issue at most n send
\* ids and at most n recv ids, all inside the reserved sub-range; any
\* further request on it fails and never returns an id outside the range;
\* and the parent generator's next send id and next recv id both advance
\* by exactly n.
C32_ReservedStaysInRange ==
    /\ [](\A k \in DOMAIN gGens :
            gFrom[k].parent # 0 =>
                /\ WithinReserved(k, "send", gFrom[k].send_lo, gFrom[k].num_rounds)
                /\ WithinReserved(k, "recv", gFrom[k].recv_lo, gFrom[k].num_rounds))
    /\ [][\A k \in DOMAIN gGens :
            ReserveReturned(k) =>
                LET n == gFrom'[Len(gGens')].num_rounds IN
                /\ gGens'[k].next_send_id = gGens[k].next_send_id + n
                /\ gGens'[k].next_recv_id = gGens[k].next_recv_id + n]_vars

\* ------------------------------------------------------------------------
\* ClientsPool: the order of the connections
\* ------------------------------------------------------------------------
\* two clients registered with the same ClientID
SomeUidTwice == \E c \in Clients : \E d \in Clients : c # d /\ uid[c] = uid[d]

\* C33: after a ClientsPool has been constructed its connections are in
\* strictly increasing ClientID order and no two connections share a
\* ClientID, for any order of connection and registration; a second
\* registration with a ClientID that is already present never yields a pool
\* containing both.
C33_PoolStrictlyIncreasing ==
    /\ PoolExposed =>
           /\ Len(pool) = NumClients
           /\ \A k \in 1 .. (Len(pool) - 1) : connUid[pool[k]] < connUid[pool[k + 1]]
           /\ \A k \in DOMAIN pool : connUid[pool[k]] = uid[pool[k]]
    /\ SomeUidTwice => (~PoolExposed /\ pool = <<>>)

\* a pool was constructed from connections accepted in descending order of
\* their ClientIDs
C33_Witness ==
    /\ poolSt = "built"
    /\ \A k \in 1 .. (Len(accepted) - 1) : connUid[accepted[k]] > connUid[accepted[k + 1]]

\* ------------------------------------------------------------------------
\* The two-phase client protocol of the mp-po2 variant
\* ------------------------------------------------------------------------
Po2Clients == DOMAIN poClient
\* the sorted pool of either server: init_meta_clients registers 0 .. n - 1
Po2Pool == [k \in 1 .. Cardinality(Po2Clients) |-> k - 1]
\* SendId::FIRST / RecvId::FIRST, SendId::SECOND / RecvId::SECOND
FIRST == COMMON_MESSAGE_ID_START
SECOND == COMMON_MESSAGE_ID_START + 1

\* the clients for which server s is the OT sender: clients.split(is_alice).0
Po2ClientsAlice(s) == LET q == Split(Po2Pool, s)[1] IN {q[k] : k \in DOMAIN q}

\* Client::send_to_alice, Client::send_to_bob: the phase-1 message under
\* SendId::FIRST
Po2SendPhase1(u, s) ==
    /\ s \notin poSent[u]
    /\ po2' = [po2 EXCEPT !.sent[u] = @ \cup {s}, !.up[u][s] = Append(@, FIRST)]
    /\ UNCHANGED <<nonU, idgen, call>>

\* Client::phase_2: subscribe to the chi seed on the connection to Alice
Po2Subscribe(u) ==
    /\ poClient[u] = "start"
    /\ po2' = [po2 EXCEPT !.client[u] = "waiting"]
    /\ UNCHANGED <<nonU, idgen, call>>

\* Client::phase_2: the chi seed has arrived; simulate_ot_verify
Po2Verify(u) ==
    /\ poClient[u] = "waiting"
    /\ FIRST \in poGotC[u][ArrangeConn(u)]
    /\ po2' = [po2 EXCEPT !.client[u] = "verified"]
    /\ UNCHANGED <<nonU, idgen, call>>

\* Client::phase_2: send the digest under SendId::SECOND to Alice
Po2SendDigest(u) ==
    /\ poClient[u] = "verified"
    /\ po2' = [po2 EXCEPT !.client[u] = "sent",
                          !.up[u][ArrangeConn(u)] = Append(@, SECOND)]
    /\ UNCHANGED <<nonU, idgen, call>>

\* the connection of server s to client u reads a frame
Po2ServerRead(s, u) ==
    /\ poUp[u][s] # <<>>
    /\ po2' = [po2 EXCEPT !.up[u][s] = Tail(@),
                          !.gotS[s][u] = @ \cup {Head(poUp[u][s])}]
    /\ UNCHANGED <<nonU, idgen, call>>

\* the connection of client u to server s reads a frame
Po2ClientRead(u, s) ==
    /\ poDown[u][s] # <<>>
    /\ po2' = [po2 EXCEPT !.down[u][s] = Tail(@),
                          !.gotC[u][s] = @ \cup {Head(poDown[u][s])}]
    /\ UNCHANGED <<nonU, idgen, call>>

\* ClientData::fetch: both gathers of RecvId::FIRST have returned
Po2Phase1Gathered_NoWait(s) == TRUE
Po2Phase1Gathered(s) == \A u \in Po2Clients : FIRST \in poGotS[s][u]

\* ClientData::fetch: after tokio::join! of the two gathers, broadcast the
\* chi seed to the clients of the alice sub-pool under SendId::FIRST
Po2Broadcast(s) ==
    /\ poSrv[s] = "phase1"
    /\ Po2Phase1Gathered(s)
    /\ po2' = [po2 EXCEPT
                  !.srv[s] = "phase2",
                  !.down = [u \in Po2Clients |->
                               IF u \in Po2ClientsAlice(s)
                               THEN [poDown[u] EXCEPT ![s] = Append(@, FIRST)]
                               ELSE poDown[u]]]
    /\ UNCHANGED <<nonU, idgen, call>>

\* ClientData::fetch: the gather of RecvId::SECOND over the alice sub-pool
\* has returned
Po2Fetched(s) ==
    /\ poSrv[s] = "phase2"
    /\ \A u \in Po2ClientsAlice(s) : SECOND \in poGotS[s][u]
    /\ po2' = [po2 EXCEPT !.srv[s] = "fetched"]
    /\ UNCHANGED <<nonU, idgen, call>>

Po2Next ==
    \/ \E u \in Po2Clients, s \in BOOLEAN : Po2SendPhase1(u, s)
    \/ \E u \in Po2Clients : Po2Subscribe(u)
    \/ \E u \in Po2Clients : Po2Verify(u)
    \/ \E u \in Po2Clients : Po2SendDigest(u)
    \/ \E u \in Po2Clients, s \in BOOLEAN : Po2ServerRead(s, u)
    \/ \E u \in Po2Clients, s \in BOOLEAN : Po2ClientRead(u, s)
    \/ \E s \in BOOLEAN : Po2Broadcast(s)
    \/ \E s \in BOOLEAN : Po2Fetched(s)

Po2Init == CoreIdle /\ GenIdle /\ CallIdle /\ \E n \in 1 .. NumPo2Clients : Po2Start(n)

\* honest parties and working links: every task and every link that can
\* take a step takes one
SpecPo2 == Po2Init /\ [][Po2Next]_vars /\ WF_vars(Po2Next)

\* the frame id is on its way from a to b or was read
SeedSent(s, u) == InSeq(FIRST, poDown[u][s]) \/ FIRST \in poGotC[u][s]
DigestSent(u, s) == InSeq(SECOND, poUp[u][s]) \/ SECOND \in poGotS[s][u]

Po2Done ==
    /\ \A u \in Po2Clients : poClient[u] = "sent"
    /\ \A s \in BOOLEAN : poSrv[s] = "fetched"

\* C34: in the two-phase client protocol a server sends the challenge seed
\* to a client only after it has received the phase-1 messages, and a
\* client sends its OT-verify digest only after it has received the
\* challenge seed from the server; with honest parties and working links
\* the phase 2 of every client and the second gather of the servers both
\* complete.
C34_TwoPhaseOrderAndCompletion ==
    /\ [](\A s \in BOOLEAN : \A u \in Po2Clients :
            /\ SeedSent(s, u) => \A v \in Po2Clients : FIRST \in poGotS[s][v]
            /\ DigestSent(u, s) => FIRST \in poGotC[u][s])
    /\ <>Po2Done

\* every client has sent its digest and both servers have gathered them,
\* with clients of both parities
C34_Witness == Po2Done /\ Cardinality(Po2Clients) = NumPo2Clients

\* ------------------------------------------------------------------------
\* MpcConnection: the byte counters
\* ------------------------------------------------------------------------
\* no write loop of e is between writing a message and counting its bytes
CountsSettled(e) == \A s \in SocketsOf(kind) : wpc[e][s] # "complete"

\* C35: after any sequence of sends and receives on a server-to-server
\* connection, num_bytes_sent() is the total number of payload bytes this
\* side has written to its sockets and num_bytes_received() is the total
\* number of payload bytes this side has read from its sockets.
C35_CountersMatchTraffic ==
    \A e \in Ends :
        (kind = "mpc" /\ CountsSettled(e)) =>
            /\ io[e].num_bytes_sent = io[e].written
            /\ io[e].num_bytes_recv = io[e].read

\* ------------------------------------------------------------------------
\* Bit multiplication at every truncation width
\* ------------------------------------------------------------------------
\* everything but the called function is idle
LibInit(c) == CoreIdle /\ GenIdle /\ Po2Idle /\ call = c

\* the OT sender holds x0 and the ROT values v0, v1; the OT receiver holds
\* x1 and the value its choice bit x1 selects
BitMulInit ==
    \E j \in 0 .. ArithBits, x0 \in BOOLEAN, x1 \in BOOLEAN, v0 \in Ring, v1 \in Ring,
       oc \in BOOLEAN :
        LibInit([op |-> "bit_mul", overflow_checks |-> oc, pc |-> "start",
                 j |-> j, x0 |-> x0, x1 |-> x1, v0 |-> v0, v1 |-> v1,
                 y0 |-> 0, u |-> 0, y1 |-> 0])

\* bit_mul_as_ot_sender(j, x0, v0, v1), called by the OT sender
BitMulSender ==
    /\ call.op = "bit_mul"
    /\ call.pc = "start"
    /\ call' = IF call.overflow_checks /\ ShlOverflows(call.j)
               THEN [call EXCEPT !.pc = "panicked"]
               ELSE LET r == BitMulAsOtSender(call.j, call.x0, call.v0, call.v1) IN
                    [call EXCEPT !.pc = "sent", !.y0 = r[1], !.u = r[2]]
    /\ UNCHANGED <<nonU, idgen, po2>>

\* bit_mul_as_ot_receiver(j, x1, v, u), called by the OT receiver with the
\* u of the sender
BitMulReceiver ==
    /\ call.op = "bit_mul"
    /\ call.pc = "sent"
    /\ call' = IF call.overflow_checks /\ ShlOverflows(call.j)
               THEN [call EXCEPT !.pc = "panicked"]
               ELSE [call EXCEPT
                        !.pc = "done",
                        !.y1 = BitMulAsOtReceiver(call.j, call.x1,
                                   IF call.x1 THEN call.v1 ELSE call.v0, call.u)]
    /\ UNCHANGED <<nonU, idgen, po2>>

BitMulNext == BitMulSender \/ BitMulReceiver

SpecBitMul == BitMulInit /\ [][BitMulNext]_vars

\* C36: bit multiplication is correct for every truncation width j with
\* 0 <= j <= W, j = W included: the outputs satisfy y0 = (-v0) mod 2^j,
\* u = (v0 + v1 + x0) mod 2^j and y0 + y1 = (x0 AND x1) mod 2^j, with no
\* arithmetic overflow.
C36_BitMulCorrectForEveryWidth ==
    call.op = "bit_mul" =>
        /\ call.pc # "panicked"
        /\ call.pc \in {"sent", "done"} =>
               /\ call.y0 = ((ArithSize - call.v0) % ArithSize) % (2 ^ call.j)
               /\ call.u = (call.v0 + call.v1 + FromBool(call.x0)) % (2 ^ call.j)
        /\ call.pc = "done" =>
               (call.y0 + call.y1) % (2 ^ call.j)
                   = FromBool(call.x0 /\ call.x1) % (2 ^ call.j)

\* ------------------------------------------------------------------------
\* COT to ROT in batches of OT_BSIZE
\* ------------------------------------------------------------------------
\* MiTCCR::hash::<H, _> of a pad of OT_BSIZE * H blocks after gid keys were
\* used: renew_ks draws the next OT_BSIZE keys, para_enc gives every group of
\* H blocks one of them (keys are numbered from 1, as positions are)
MiTCCRHashPad_KeyPerBlock(enc, gid, H, pad) ==
    [p \in DOMAIN pad |-> MiTCCRHash(enc, gid + p, pad[p])]

MiTCCRHashPad(enc, gid, H, pad) ==
    [p \in DOMAIN pad |-> MiTCCRHash(enc, gid + ((p - 1) \div H) + 1, pad[p])]

\* the sender's pad of one chunk: q, q + delta, q, q + delta, ...
RotSenderPad(qs, delta) ==
    [p \in 1 .. (2 * OT_BSIZE) |->
        IF p % 2 = 1 THEN qs[(p + 1) \div 2] ELSE AddGf(qs[p \div 2], delta)]

\* one chunk of cot_to_rot_sender_side, by a hasher that used gid keys:
\* what is pushed to data_0 and to data_1
RotSenderChunk(enc, gid, qs, delta) ==
    LET pad == MiTCCRHashPad(enc, gid, 2, RotSenderPad(qs, delta)) IN
    <<[k \in 1 .. OT_BSIZE |-> FromRot(pad[2 * k - 1])],
      [k \in 1 .. OT_BSIZE |-> FromRot(pad[2 * k])]>>

\* one chunk of cot_to_rot_receiver_side: what data is extended with
RotReceiverChunk(enc, gid, ts) ==
    LET pad == MiTCCRHashPad(enc, gid, 1, ts) IN
    [k \in 1 .. OT_BSIZE |-> FromRot(pad[k])]

\* assert_eq!(q.len() % OT_BSIZE, 0)
RotAligned(len) == len % OT_BSIZE = 0

\* the receiver's blocks: t = q + select_bit * delta
RotTs(qs, bits, delta) ==
    [k \in DOMAIN qs |-> IF bits[k] THEN AddGf(qs[k], delta) ELSE qs[k]]

\* a batch of len blocks; each side has its own hasher (sgid, rgid: the keys
\* it used), and qs, bits and the data are those of the chunk at hand
RotInit ==
    \E len \in 0 .. (MaxChunks * OT_BSIZE), delta \in Blocks, enc \in Ciphers :
        LibInit([op |-> "rot", pc |-> "start", enc |-> enc, delta |-> delta,
                 len |-> len, pos |-> 0, sgid |-> 0, rgid |-> 0,
                 qs |-> <<>>, bits |-> <<>>,
                 data_0 |-> <<>>, data_1 |-> <<>>, data |-> <<>>])

\* cot_to_rot_sender_side: the assertion, then the next chunk of q
RotSender ==
    /\ call.op = "rot"
    /\ call.pc \in {"start", "loop"}
    /\ IF ~RotAligned(call.len)
       THEN call' = [call EXCEPT !.pc = "panicked"]
       ELSE IF call.pos = call.len
       THEN call' = [call EXCEPT !.pc = "done"]
       ELSE \E qs \in [1 .. OT_BSIZE -> Blocks], bits \in [1 .. OT_BSIZE -> BOOLEAN] :
                LET r == RotSenderChunk(call.enc, call.sgid, qs, call.delta) IN
                call' = [call EXCEPT !.pc = "sent", !.qs = qs, !.bits = bits,
                                     !.sgid = @ + OT_BSIZE,
                                     !.data_0 = r[1], !.data_1 = r[2]]
    /\ UNCHANGED <<nonU, idgen, po2>>

\* cot_to_rot_receiver_side: the same chunk of t
RotReceiver ==
    /\ call.op = "rot"
    /\ call.pc = "sent"
    /\ call' = [call EXCEPT
                   !.pc = "loop",
                   !.pos = @ + OT_BSIZE,
                   !.rgid = @ + OT_BSIZE,
                   !.data = RotReceiverChunk(call.enc, call.rgid,
                                RotTs(call.qs, call.bits, call.delta))]
    /\ UNCHANGED <<nonU, idgen, po2>>

RotNext == RotSender \/ RotReceiver

SpecRot == RotInit /\ [][RotNext]_vars

\* C37: for every aligned COT batch and every position, in whichever chunk,
\* the trimmed ROT value the receiver derives from t equals the sender's
\* second value where the choice bit is 1 and the sender's first value where
\* it is 0: both sides hash a position under the same key.
C37_RotSidesAgree ==
    (call.op = "rot" /\ call.pc = "loop") =>
        /\ call.sgid = call.rgid
        /\ \A k \in 1 .. OT_BSIZE :
               call.data[k] = IF call.bits[k] THEN call.data_1[k] ELSE call.data_0[k]

\* the last chunk of a batch of more than one chunk, converted by both, with
\* both choices made in it and two values to choose from
C37_Witness ==
    /\ call.op = "rot"
    /\ call.pc = "loop"
    /\ call.pos = MaxChunks * OT_BSIZE
    /\ call.pos > OT_BSIZE
    /\ call.bits[OT_BSIZE]
    /\ ~call.bits[OT_BSIZE - 1]
    /\ call.data_0[OT_BSIZE] # call.data_1[OT_BSIZE]

\* ------------------------------------------------------------------------
\* PackedBits: the bits beyond the size
\* ------------------------------------------------------------------------
\* a lane of the payload (a BitsLE<u32>), as the number its bits spell
LaneSize == 2 ^ LaneBits
Lanes == 0 .. (LaneSize - 1)

\* BitsLE::get_bit
GetBit(w, i) == (w \div (2 ^ i)) % 2 = 1
\* BitsLE::set_bit: (me & !mask) | c_mask
SetBit(w, i, bit) ==
    (w - (IF GetBit(w, i) THEN 2 ^ i ELSE 0)) + (IF bit THEN 2 ^ i ELSE 0)

RECURSIVE LaneAnd(_, _)
LaneAnd(a, b) ==
    IF a = 0 \/ b = 0 THEN 0
    ELSE ((a % 2) * (b % 2)) + 2 * LaneAnd(a \div 2, b \div 2)

LaneNot(a) == (LaneSize - 1) - a

\* PackedBits::default()
PackedDefault == [size |-> 0, payload |-> <<>>]

\* (num_bits + 31) >> 5
NumLanes(num_bits) == (num_bits + (LaneBits - 1)) \div LaneBits

\* adjust_last_byte: payload.last_mut().unwrap() panics on an empty payload
AdjustPanics(v) == v.size % LaneBits # 0 /\ v.payload = <<>>

AdjustLastByte(v) ==
    LET offset == v.size % LaneBits IN
    IF offset # 0 /\ v.payload # <<>>
    THEN [v EXCEPT !.payload[Len(v.payload)] = LaneAnd(@, (2 ^ offset) - 1)]
    ELSE v

\* PackedBits::rand, with the lanes the generator gives
PackedRand(num_bits, lanes) == AdjustLastByte([size |-> num_bits, payload |-> lanes])

\* PackedBits::to_boolean_shares, with the lanes the generator gives
PackedToBooleanShares(v, lanes) ==
    <<AdjustLastByte([size |-> v.size, payload |-> lanes]),
      AdjustLastByte([size |-> v.size,
                      payload |-> [k \in DOMAIN v.payload |-> Xor(v.payload[k], lanes[k])]])>>

\* the size of self, the lanes zipped
PackedAnd(a, b) ==
    [size |-> a.size,
     payload |-> [k \in 1 .. Min(Len(a.payload), Len(b.payload)) |->
                     LaneAnd(a.payload[k], b.payload[k])]]

PackedXor(a, b) ==
    [size |-> a.size,
     payload |-> [k \in 1 .. Min(Len(a.payload), Len(b.payload)) |->
                     Xor(a.payload[k], b.payload[k])]]

PackedNot(a) ==
    AdjustLastByte([size |-> a.size,
                    payload |-> [k \in DOMAIN a.payload |-> LaneNot(a.payload[k])]])

\* FromIterator<bool>: a lane is pushed when the size reaches a lane boundary
RECURSIVE PackedFromIterLoop(_, _)
PackedFromIterLoop(bits, v) ==
    IF bits = <<>> THEN v
    ELSE LET payload == IF v.size % LaneBits = 0 THEN Append(v.payload, 0)
                        ELSE v.payload
         IN  PackedFromIterLoop(Tail(bits),
                 [size |-> v.size + 1,
                  payload |-> [payload EXCEPT ![Len(payload)] =
                                  SetBit(@, v.size % LaneBits, Head(bits))]])

PackedFromIter(bits) == PackedFromIterLoop(bits, PackedDefault)

\* two vectors the program holds
reg == call.reg
Regs == 1 .. 2

BitsInit == LibInit([op |-> "bits", pc |-> "run", reg |-> <<PackedDefault, PackedDefault>>])

BitsStep(d, v) ==
    /\ call' = [call EXCEPT !.reg[d] = v]
    /\ UNCHANGED <<nonU, idgen, po2>>

BitsPanic ==
    /\ call' = [call EXCEPT !.pc = "panicked"]
    /\ UNCHANGED <<nonU, idgen, po2>>

BitsRunning == call.op = "bits" /\ call.pc = "run"

BitsFromIter ==
    /\ BitsRunning
    /\ \E d \in Regs, n \in 0 .. MaxPackedBits :
           \E bits \in [1 .. n -> BOOLEAN] : BitsStep(d, PackedFromIter(bits))

BitsRand ==
    /\ BitsRunning
    /\ \E d \in Regs, num_bits \in 0 .. MaxPackedBits :
           \E lanes \in [1 .. NumLanes(num_bits) -> Lanes] :
               BitsStep(d, PackedRand(num_bits, lanes))

BitsToBooleanShares ==
    /\ BitsRunning
    /\ \E s \in Regs :
           IF AdjustPanics(reg[s]) THEN BitsPanic
           ELSE \E lanes \in [DOMAIN reg[s].payload -> Lanes] :
                    /\ call' = [call EXCEPT !.reg = PackedToBooleanShares(reg[s], lanes)]
                    /\ UNCHANGED <<nonU, idgen, po2>>

BitsAnd ==
    /\ BitsRunning
    /\ \E d \in Regs, a \in Regs, b \in Regs : BitsStep(d, PackedAnd(reg[a], reg[b]))

BitsXor ==
    /\ BitsRunning
    /\ \E d \in Regs, a \in Regs, b \in Regs : BitsStep(d, PackedXor(reg[a], reg[b]))

BitsNot ==
    /\ BitsRunning
    /\ \E d \in Regs, a \in Regs :
           IF AdjustPanics(reg[a]) THEN BitsPanic
           ELSE BitsStep(d, PackedNot(reg[a]))

BitsNext ==
    \/ BitsFromIter
    \/ BitsRand
    \/ BitsToBooleanShares
    \/ BitsAnd
    \/ BitsXor
    \/ BitsNot

SpecBits == BitsInit /\ [][BitsNext]_vars

\* no stored bit at or beyond the size is set
TailZero(v) ==
    \A k \in DOMAIN v.payload, i \in 0 .. (LaneBits - 1) :
        ((k - 1) * LaneBits) + i >= v.size => ~GetBit(v.payload[k], i)

\* C38: after every operation that creates or changes a packed bit vector
\* (building from bits, random generation, splitting into shares, AND, XOR,
\* NOT), for operands of any sizes the operation accepts, every stored bit at
\* a position at or beyond the size of the vector is zero.
C38_TailBitsZero == call.op = "bits" => \A d \in Regs : TailZero(reg[d])

\* ------------------------------------------------------------------------
\* BlockRng: one call and successive calls
\* ------------------------------------------------------------------------
\* BlockRng::new(Some(seed)): the counter at 0, the key scheduled from the
\* seed (aes: the cipher under that key)
BlockRngNew(aes) == [counter |-> 0, aes |-> aes]

\* a window of size blocks set to the counter values from counter on, then
\* aes_ecb_encrypt_blocks: each block, [counter, 0], encrypted by itself
RngWindow(aes, counter, size) ==
    [j \in 1 .. size |-> aes[(counter + (j - 1)) % BlockSize]]

\* the full batches of random_blocks: <<blocks, generator>>
RECURSIVE RngBatches(_, _, _)
RngBatches(rng, dest, batches) ==
    IF batches = 0 THEN <<dest, rng>>
    ELSE RngBatches([rng EXCEPT !.counter = @ + AES_BATCH_SIZE],
                    dest \o RngWindow(rng.aes, rng.counter, AES_BATCH_SIZE),
                    batches - 1)

\* random_blocks on a destination of len blocks, the remainder not counted
RandomBlocks_RemainNotCounted(rng, len) ==
    LET full == RngBatches(rng, <<>>, len \div AES_BATCH_SIZE)
        remain == len % AES_BATCH_SIZE
    IN  <<full[1] \o RngWindow(full[2].aes, full[2].counter, remain), full[2]>>

\* random_blocks on a destination of len blocks: <<blocks, generator>>
RandomBlocks(rng, len) ==
    LET full == RngBatches(rng, <<>>, len \div AES_BATCH_SIZE)
        remain == len % AES_BATCH_SIZE
    IN  <<full[1] \o RngWindow(full[2].aes, full[2].counter, remain),
          [full[2] EXCEPT !.counter = @ + remain]>>

\* two generators of the same seed: one fills n1 + n2 blocks in one call,
\* the other n1 blocks and then n2 blocks
RngInit ==
    \E n1 \in 0 .. MaxRngBlocks :
        \E n2 \in 0 .. (MaxRngBlocks - n1), aes \in Ciphers :
            LibInit([op |-> "rng", n1 |-> n1, n2 |-> n2,
                     one |-> BlockRngNew(aes), whole |-> <<>>, once |-> FALSE,
                     two |-> BlockRngNew(aes), parts |-> <<>>, calls |-> 0])

RngOneCall ==
    /\ call.op = "rng"
    /\ ~call.once
    /\ LET r == RandomBlocks(call.one, call.n1 + call.n2) IN
       call' = [call EXCEPT !.once = TRUE, !.whole = r[1], !.one = r[2]]
    /\ UNCHANGED <<nonU, idgen, po2>>

RngSuccessiveCall ==
    /\ call.op = "rng"
    /\ call.calls < 2
    /\ LET r == RandomBlocks(call.two, IF call.calls = 0 THEN call.n1 ELSE call.n2) IN
       call' = [call EXCEPT !.calls = @ + 1, !.parts = @ \o r[1], !.two = r[2]]
    /\ UNCHANGED <<nonU, idgen, po2>>

RngNext == RngOneCall \/ RngSuccessiveCall

SpecRng == RngInit /\ [][RngNext]_vars

\* C39: for any seed and any sizes n1 + n2 = n, multiples of the batch of
\* the generator or not, generating n blocks in one random_blocks call
\* yields the same sequence as generating n1 blocks and then n2 blocks with
\* successive calls on a generator created from the same seed.
C39_SplitCallsSameSequence ==
    (call.op = "rng" /\ call.once /\ call.calls = 2) =>
        /\ call.whole = call.parts
        /\ call.one = call.two

\* both done, with a first size that is no multiple of the batch, more than
\* one batch in all, and blocks that differ from one position to the next
C39_Witness ==
    /\ call.op = "rng"
    /\ call.once
    /\ call.calls = 2
    /\ call.n1 % AES_BATCH_SIZE # 0
    /\ call.n2 % AES_BATCH_SIZE # 0
    /\ Len(call.whole) = MaxRngBlocks
    /\ MaxRngBlocks > AES_BATCH_SIZE
    /\ \A j \in 1 .. (MaxRngBlocks - 1) : call.whole[j] # call.whole[j + 1]

\* ------------------------------------------------------------------------
\* The inner products on operands of any two lengths
\* ------------------------------------------------------------------------
\* debug_assert_eq!(a.len(), b.len()): checked where the build has debug
\* assertions, absent elsewhere
InnerProductAsserts(debug_assertions, a, b) == debug_assertions /\ Len(a) # Len(b)

DotInit ==
    \E la \in 0 .. MaxDotLen, lb \in 0 .. MaxDotLen, debug_assertions \in BOOLEAN :
        \E a \in [1 .. la -> Blocks], bools \in [1 .. la -> BOOLEAN],
           b \in [1 .. lb -> Blocks] :
            LibInit([op |-> "dot", debug_assertions |-> debug_assertions,
                     pc |-> "start", fn |-> "none",
                     a |-> a, bools |-> bools, b |-> b, r |-> <<0, 0>>])

\* inner_product(a, b)
DotInnerProduct ==
    /\ call.op = "dot"
    /\ call.pc = "start"
    /\ call' = IF InnerProductAsserts(call.debug_assertions, call.a, call.b)
               THEN [call EXCEPT !.pc = "panicked", !.fn = "inner_product"]
               ELSE [call EXCEPT !.pc = "returned", !.fn = "inner_product",
                                 !.r = InnerProduct(call.a, call.b)]
    /\ UNCHANGED <<nonU, idgen, po2>>

\* inner_product_with_boolean_scalar(bools, b)
DotInnerProductWithBooleanScalar ==
    /\ call.op = "dot"
    /\ call.pc = "start"
    /\ call' = [call EXCEPT
                   !.pc = "returned", !.fn = "inner_product_with_boolean_scalar",
                   !.r = <<InnerProductWithBooleanScalar(call.bools, call.b), 0>>]
    /\ UNCHANGED <<nonU, idgen, po2>>

DotNext == DotInnerProduct \/ DotInnerProductWithBooleanScalar

SpecDot == DotInit /\ [][DotNext]_vars

\* C40: both inner products, block by block and block by boolean, require
\* operands of equal length: a call with operands of different lengths is
\* rejected as a fatal error and never returns a value (which would be
\* computed from a truncated operand).
C40_UnequalLengthsRejected ==
    (call.op = "dot" /\ call.pc = "returned") => Len(call.a) = Len(call.b)

====
